---------------------------- MODULE Spec2Model ----------------------------
(***************************************************************************)
(* A model of disktui: the operation engine (src/src/operations.rs), the   *)
(* privileged helper (src/src/bin/disktui-helper.rs), the key handler      *)
(* (src/src/handler.rs) and the event loop (src/src/main.rs).              *)
(*                                                                         *)
(* Strings are sequences of characters (one-character TLA+ strings), so    *)
(* that validation, suffix matching and the partition-table rewrite are    *)
(* computed character by character as the code computes them.  Byte counts *)
(* are decimal digit sequences (most significant digit first), because the *)
(* code's u64 values exceed the range of TLC's integers.                   *)
(*                                                                         *)
(* An operation is modelled by the set of its runs.  A run is the sequence *)
(* of effects the operation performs (external tool invocations, events    *)
(* sent to the channel, response lines written) together with its result.  *)
(* The outcome of every external tool invocation is chosen by the          *)
(* environment.  The event channel and the helper's standard output are    *)
(* assumed to accept every send.  A whole word of a command line (an       *)
(* option, a subcommand) is a single token; an operation that calls other  *)
(* operations keeps their tool invocations, events and response lines and  *)
(* leaves out their read-only probes.                                      *)
(*                                                                         *)
(* Specifications:                                                         *)
(*   Spec        every operation and every helper request, one at a time   *)
(*   SpecSize    size parsing and partition creation                       *)
(*   SpecResize  resize_partition_and_filesystem                           *)
(*   SpecGuard   key handler, event loop and spawned operation tasks       *)
(*   SpecHelper  the helper process, line by line                          *)
(*   SpecFormat  formatting, by the engine and by the helper               *)
(*   SpecLuks    get_luks_status over the listings of /dev/mapper          *)
(*   SpecInventory  the Partition records of list_block_devices            *)
(***************************************************************************)
EXTENDS Integers, Sequences, FiniteSets, TLC

VARIABLES
    phase,      \* Spec: "idle" or "done"
    op,         \* Spec: the operation that ran last
    arg,        \* Spec: its arguments
    run,        \* Spec: the run the environment chose for it
    flag,       \* SpecGuard: app.operation_in_progress
    chan,       \* SpecGuard: the event channel (FIFO)
    tasks,      \* SpecGuard: the spawned operation tasks
    ui,         \* SpecGuard: confirmation dialog and progress dialog
    nkeys,      \* SpecGuard: key presses so far <<all, starting>>
    hin,        \* SpecHelper: the lines sent to the helper's standard input
    hout,       \* SpecHelper: the response lines written, with their line of input
    hcur,       \* SpecHelper: the line of input being handled, its lines to write
    halive      \* SpecHelper: the helper process has not ended

opsVars    == <<phase, op, arg, run>>
guardVars  == <<flag, chan, tasks, ui, nkeys>>
helperVars == <<hin, hout, hcur, halive>>
vars       == <<phase, op, arg, run, flag, chan, tasks, ui, nkeys, hin, hout, hcur, halive>>

---------------------------------------------------------------------------
(* Characters and strings *)

LowerSeq == <<"a","b","c","d","e","f","g","h","i","j","k","l","m",
              "n","o","p","q","r","s","t","u","v","w","x","y","z">>
UpperSeq == <<"A","B","C","D","E","F","G","H","I","J","K","L","M",
              "N","O","P","Q","R","S","T","U","V","W","X","Y","Z">>
DigitSeq == <<"0","1","2","3","4","5","6","7","8","9">>

Range(s) == {s[i] : i \in DOMAIN s}

AsciiLetters == Range(LowerSeq) \cup Range(UpperSeq)
Digits       == Range(DigitSeq)
\* Letters outside ASCII: alphabetic for char::is_alphanumeric, two bytes in UTF-8.
NonAsciiLetters == {"U+00E9", "U+00C9"}
Whitespace   == {" ", "\t"}

\* char::is_alphanumeric (Unicode Alphabetic or Numeric)
is_alphanumeric(c) == c \in AsciiLetters \cup Digits \cup NonAsciiLetters

\* char::is_numeric, restricted to the characters of the model
is_numeric(c) == c \in Digits

\* the number of bytes of c in UTF-8: str::len counts bytes
ByteLen(c) == IF c \in NonAsciiLetters THEN 2 ELSE 1

RECURSIVE str_len(_)
str_len(s) == IF s = <<>> THEN 0 ELSE ByteLen(Head(s)) + str_len(Tail(s))

IndexIn(c, s) == CHOOSE i \in DOMAIN s : s[i] = c

to_uppercase_char(c) ==
    IF c \in Range(LowerSeq) THEN UpperSeq[IndexIn(c, LowerSeq)]
    ELSE IF c = "U+00E9" THEN "U+00C9"
    ELSE c

to_uppercase(s) == [i \in DOMAIN s |-> to_uppercase_char(s[i])]

starts_with(s, p) == Len(p) <= Len(s) /\ SubSeq(s, 1, Len(p)) = p
ends_with(s, p) == Len(p) <= Len(s) /\ SubSeq(s, Len(s) - Len(p) + 1, Len(s)) = p
contains(s, p) == \E i \in 1..(Len(s) - Len(p) + 1) : SubSeq(s, i, i + Len(p) - 1) = p

RECURSIVE trim_start(_)
trim_start(s) ==
    IF s # <<>> /\ Head(s) \in Whitespace THEN trim_start(Tail(s)) ELSE s

RECURSIVE trim_end(_)
trim_end(s) ==
    IF s # <<>> /\ s[Len(s)] \in Whitespace THEN trim_end(SubSeq(s, 1, Len(s) - 1)) ELSE s

trim(s) == trim_end(trim_start(s))

\* str::trim_end_matches(c): every trailing c is removed
RECURSIVE trim_end_matches(_, _)
trim_end_matches(s, c) ==
    IF s # <<>> /\ s[Len(s)] = c THEN trim_end_matches(SubSeq(s, 1, Len(s) - 1), c) ELSE s

\* str::trim_end_matches(char::is_numeric)
RECURSIVE trim_end_numeric(_)
trim_end_numeric(s) ==
    IF s # <<>> /\ is_numeric(s[Len(s)]) THEN trim_end_numeric(SubSeq(s, 1, Len(s) - 1)) ELSE s

\* str::trim_start_matches(p) for a string pattern p: every leading copy of p is removed
RECURSIVE trim_start_matches(_, _)
trim_start_matches(s, p) ==
    IF p # <<>> /\ starts_with(s, p)
    THEN trim_start_matches(SubSeq(s, Len(p) + 1, Len(s)), p)
    ELSE s

\* str::split on any of the characters of seps: the pieces, in order
RECURSIVE split_from(_, _, _, _)
split_from(s, seps, i, cur) ==
    IF i > Len(s) THEN <<cur>>
    ELSE IF s[i] \in seps THEN <<cur>> \o split_from(s, seps, i + 1, <<>>)
    ELSE split_from(s, seps, i + 1, Append(cur, s[i]))

split(s, seps) == split_from(s, seps, 1, <<>>)

\* the last index of character c in s, 0 when absent
LastIndexOf(s, c) ==
    IF \E i \in DOMAIN s : s[i] = c
    THEN CHOOSE i \in DOMAIN s : s[i] = c /\ \A j \in DOMAIN s : s[j] = c => j <= i
    ELSE 0

\* format!("/dev/{}", name) and format!("/dev/mapper/{}", name)
DevPrefix    == <<"/","d","e","v","/">>
MapperPrefix == <<"/","d","e","v","/","m","a","p","p","e","r","/">>
LuksPrefix   == <<"l","u","k","s","-">>
dev_path(name)    == DevPrefix \o name
mapper_path(name) == MapperPrefix \o name

---------------------------------------------------------------------------
(* u64 byte counts as decimal digit sequences, most significant digit      *)
(* first, without leading zeros (zero is <<0>>).                           *)

RECURSIVE NatNorm(_)
NatNorm(d) ==
    IF Len(d) > 1 /\ Head(d) = 0 THEN NatNorm(Tail(d))
    ELSE IF d = <<>> THEN <<0>> ELSE d

Zeros(n) == [i \in 1..n |-> 0]

\* m * 10^e
Sci(m, e) == NatNorm(m \o Zeros(e))

PadTo(d, n) == Zeros(n - Len(d)) \o d

\* comparison of normalised numbers
RECURSIVE LexLess(_, _)
LexLess(a, b) ==
    IF a = <<>> THEN FALSE
    ELSE IF Head(a) # Head(b) THEN Head(a) < Head(b)
    ELSE LexLess(Tail(a), Tail(b))

NatLess(a, b) ==
    IF Len(a) # Len(b) THEN Len(a) < Len(b) ELSE LexLess(a, b)

NatLeq(a, b) == a = b \/ NatLess(a, b)

\* a + b, digit by digit from the right with a carry
RECURSIVE AddFrom(_, _, _, _)
AddFrom(a, b, i, carry) ==
    IF i = 0 THEN (IF carry = 0 THEN <<>> ELSE <<carry>>)
    ELSE LET t == a[i] + b[i] + carry
         IN  Append(AddFrom(a, b, i - 1, t \div 10), t % 10)

NatAdd(a, b) ==
    LET n == IF Len(a) > Len(b) THEN Len(a) ELSE Len(b)
    IN  NatNorm(AddFrom(PadTo(a, n), PadTo(b, n), n, 0))

\* a - b for a >= b, digit by digit from the right with a borrow
RECURSIVE SubFrom(_, _, _, _)
SubFrom(a, b, i, borrow) ==
    IF i = 0 THEN <<>>
    ELSE LET t == a[i] - b[i] - borrow
         IN  IF t < 0 THEN Append(SubFrom(a, b, i - 1, 1), t + 10)
             ELSE Append(SubFrom(a, b, i - 1, 0), t)

NatSub(a, b) == NatNorm(SubFrom(a, PadTo(b, Len(a)), Len(a), 0))

\* u64::saturating_sub
saturating_sub(a, b) == IF NatLess(a, b) THEN <<0>> ELSE NatSub(a, b)

\* a / k (integer division) for a small k: long division from the left
RECURSIVE DivFrom(_, _, _, _)
DivFrom(a, k, i, rem) ==
    IF i > Len(a) THEN <<>>
    ELSE LET t == rem * 10 + a[i]
         IN  <<t \div k>> \o DivFrom(a, k, i + 1, t % k)

NatDivSmall(a, k) == NatNorm(DivFrom(a, k, 1, 0))

\* a / 10^n (integer division)
NatDivPow10(a, n) ==
    IF Len(a) <= n THEN <<0>> ELSE SubSeq(a, 1, Len(a) - n)

RECURSIVE NatSum(_)
NatSum(ds) == IF ds = <<>> THEN <<0>> ELSE NatAdd(Head(ds), NatSum(Tail(ds)))

\* u64::MAX = 18446744073709551615 and 2^64
U64Max   == <<1,8,4,4,6,7,4,4,0,7,3,7,0,9,5,5,1,6,1,5>>
TwoPow64 == <<1,8,4,4,6,7,4,4,0,7,3,7,0,9,5,5,1,6,1,6>>

\* u64 addition as the release build computes it: modulo 2^64
wrapping_add(a, b) ==
    LET s == NatAdd(a, b)
    IN  IF NatLess(U64Max, s) THEN NatSub(s, TwoPow64) ELSE s

\* the decimal text of a number: u64::to_string, format!("{}", n)
NatToStr(d) == [i \in DOMAIN d |-> DigitSeq[d[i] + 1]]

\* the number a string of ASCII digits denotes
StrToNat(s) == NatNorm([i \in DOMAIN s |-> IndexIn(s[i], DigitSeq) - 1])

\* a short digit sequence as a TLC integer (exponents only)
RECURSIVE SmallInt(_)
SmallInt(d) == IF d = <<>> THEN 0 ELSE SmallInt(SubSeq(d, 1, Len(d) - 1)) * 10 + d[Len(d)]

---------------------------------------------------------------------------
(* Command Validator and Size Parser *)

MaxNameLen == 32

\* A mutant of the validator: the length limit is dropped.
validate_device_name_no_limit(name) ==
    /\ name # <<>>
    /\ ~(contains(name, <<".", ".">>) \/ contains(name, <<"/">>))
    /\ \A i \in DOMAIN name : is_alphanumeric(name[i]) \/ name[i] = "-" \/ name[i] = "_"

\* operations.rs validate_device_name: TRUE when the result is Ok(())
validate_device_name(name) ==
    /\ name # <<>>
    /\ ~(contains(name, <<".", ".">>) \/ contains(name, <<"/">>))
    /\ \A i \in DOMAIN name : is_alphanumeric(name[i]) \/ name[i] = "-" \/ name[i] = "_"
    /\ ~(str_len(name) > MaxNameLen)

\* disktui-helper.rs validate_device_name: the same four checks
helper_validate_device_name(name) ==
    /\ name # <<>>
    /\ ~(contains(name, <<".", ".">>) \/ contains(name, <<"/">>))
    /\ \A i \in DOMAIN name : is_alphanumeric(name[i]) \/ name[i] = "-" \/ name[i] = "_"
    /\ ~(str_len(name) > MaxNameLen)

FirstIndexOf(s, c) ==
    IF \E i \in DOMAIN s : s[i] = c
    THEN CHOOSE i \in DOMAIN s : s[i] = c /\ \A j \in DOMAIN s : s[j] = c => i <= j
    ELSE 0

AllDigits(s) == \A i \in DOMAIN s : s[i] \in Digits

\* <f64 as FromStr>::from_str on an upper-cased string.  The value is
\* digits * 10^(-scale), exactly; f64 represents it to 15 significant digits,
\* which is exact for the inputs of the model.
ParseF64(s) ==
    LET neg  == s # <<>> /\ Head(s) = "-"
        body == IF s # <<>> /\ Head(s) \in {"+", "-"} THEN Tail(s) ELSE s
        epos == FirstIndexOf(body, "E")
        mant == IF epos = 0 THEN body ELSE SubSeq(body, 1, epos - 1)
        expo == IF epos = 0 THEN <<>> ELSE SubSeq(body, epos + 1, Len(body))
        eneg == expo # <<>> /\ Head(expo) = "-"
        edig == IF expo # <<>> /\ Head(expo) \in {"+", "-"} THEN Tail(expo) ELSE expo
        dot  == FirstIndexOf(mant, ".")
        ip   == IF dot = 0 THEN mant ELSE SubSeq(mant, 1, dot - 1)
        fp   == IF dot = 0 THEN <<>> ELSE SubSeq(mant, dot + 1, Len(mant))
        bad  == [ok |-> FALSE, kind |-> "err", neg |-> FALSE, digits |-> <<0>>, scale |-> 0]
    IN  IF body \in {<<"I","N","F">>, <<"I","N","F","I","N","I","T","Y">>}
        THEN [ok |-> TRUE, kind |-> "inf", neg |-> neg, digits |-> <<0>>, scale |-> 0]
        ELSE IF body = <<"N","A","N">>
        THEN [ok |-> TRUE, kind |-> "nan", neg |-> neg, digits |-> <<0>>, scale |-> 0]
        ELSE IF ~(AllDigits(ip) /\ AllDigits(fp) /\ Len(ip) + Len(fp) >= 1)
        THEN bad
        ELSE IF epos # 0 /\ ~(edig # <<>> /\ AllDigits(edig))
        THEN bad
        ELSE LET e == IF epos = 0 THEN 0
                      ELSE IF eneg THEN 0 - SmallInt(StrToNat(edig))
                      ELSE SmallInt(StrToNat(edig))
             IN  [ok |-> TRUE, kind |-> "num", neg |-> neg,
                  digits |-> [i \in 1..(Len(ip) + Len(fp)) |->
                                 IndexIn((ip \o fp)[i], DigitSeq) - 1],
                  scale |-> Len(fp) - e]

\* (num * 10^exp10).round() as u64: round half away from zero, then the
\* saturating float-to-integer cast (NaN and negatives to 0, overflow to u64::MAX)
RoundToU64(f, exp10) ==
    LET sc  == f.scale - exp10
        n   == Len(f.digits)
        mag == IF sc <= 0 THEN NatNorm(f.digits \o Zeros(0 - sc))
               ELSE IF sc > n THEN <<0>>
               ELSE LET whole == NatNorm(SubSeq(f.digits, 1, n - sc))
                    IN  IF f.digits[n - sc + 1] >= 5 THEN NatAdd(whole, <<1>>) ELSE whole
    IN  IF f.kind = "nan" THEN <<0>>
        ELSE IF f.neg THEN <<0>>
        ELSE IF f.kind = "inf" THEN U64Max
        ELSE IF NatLess(U64Max, mag) THEN U64Max
        ELSE mag

\* the unit suffix of an upper-cased size string: <<characters to drop, power of ten>>
SizeUnit(input) ==
    IF ends_with(input, <<"T","B">>) \/ ends_with(input, <<"T">>)
    THEN <<IF ends_with(input, <<"T","B">>) THEN 2 ELSE 1, 12>>
    ELSE IF ends_with(input, <<"G","B">>) \/ ends_with(input, <<"G">>)
    THEN <<IF ends_with(input, <<"G","B">>) THEN 2 ELSE 1, 9>>
    ELSE IF ends_with(input, <<"M","B">>) \/ ends_with(input, <<"M">>)
    THEN <<IF ends_with(input, <<"M","B">>) THEN 2 ELSE 1, 6>>
    ELSE IF ends_with(input, <<"K","B">>) \/ ends_with(input, <<"K">>)
    THEN <<IF ends_with(input, <<"K","B">>) THEN 2 ELSE 1, 3>>
    ELSE <<0, 0>>

\* A mutant of the size parser: binary-looking megabytes (10^5 for M).
parse_size_wrong_unit(input) ==
    LET up == trim_end_matches(to_uppercase(trim(input)), "B")
        u  == SizeUnit(up)
        f  == ParseF64(SubSeq(up, 1, Len(up) - u[1]))
    IN  IF f.ok THEN [ok |-> TRUE, val |-> RoundToU64(f, IF u[2] = 6 THEN 5 ELSE u[2])]
        ELSE [ok |-> FALSE, val |-> <<0>>]

\* operations.rs parse_size
parse_size(input) ==
    LET up == trim_end_matches(to_uppercase(trim(input)), "B")
        u  == SizeUnit(up)
        f  == ParseF64(SubSeq(up, 1, Len(up) - u[1]))
    IN  IF f.ok THEN [ok |-> TRUE, val |-> RoundToU64(f, u[2])]
        ELSE [ok |-> FALSE, val |-> <<0>>]

\* disktui-helper.rs parse_size: no trailing B is stripped before the suffix test
helper_parse_size(input) ==
    LET up == to_uppercase(trim(input))
        u  == SizeUnit(up)
        f  == ParseF64(SubSeq(up, 1, Len(up) - u[1]))
    IN  IF f.ok THEN [ok |-> TRUE, val |-> RoundToU64(f, u[2])]
        ELSE [ok |-> FALSE, val |-> <<0>>]

---------------------------------------------------------------------------
(* Effects and runs *)

\* a whole word of a command line (an option or a subcommand) as one token
W(word) == <<word>>

\* an external tool invocation with the outcome the environment chose:
\* "ok" (exit status 0), "fail" (non-zero exit status), "err" (the process
\* could not be spawned), "timeout" (the tokio timeout elapsed first), "late"
\* (exit status 0 after more than five seconds, where no timeout is applied)
Call(prog, args, res) ==
    [k |-> "call", name |-> prog, tag |-> "", args |-> args, res |-> res,
     lines |-> <<>>, text |-> ""]

\* the same, with the lines of its standard output
CallOut(prog, args, res, out) ==
    [k |-> "call", name |-> prog, tag |-> "", args |-> args, res |-> res,
     lines |-> out, text |-> ""]

\* the same, with the lines written to its standard input
CallIn(prog, args, res, input) ==
    [k |-> "call", name |-> prog, tag |-> "", args |-> args, res |-> res,
     lines |-> input, text |-> ""]

\* std::path::Path::exists and std::fs::read_dir: a read of the file system
Probe(what, path, res) ==
    [k |-> "fs", name |-> what, tag |-> "", args |-> <<path>>, res |-> res,
     lines |-> <<>>, text |-> ""]

\* an event sent on the channel
Ev(name, level, text) ==
    [k |-> "ev", name |-> name, tag |-> level, args |-> <<>>, res |-> "",
     lines |-> <<>>, text |-> text]

\* Notification::send(message, level, sender): sends Event::Notification
Notification_send(text, level) == Ev("Notification", level, text)

StartProgress(text) == Ev("StartProgress", "", text)
EndProgress == Ev("EndProgress", "", "")

\* a response line written by the helper
Resp(type, tag, text) ==
    [k |-> "resp", name |-> type, tag |-> tag, args |-> <<>>, res |-> "",
     lines |-> <<>>, text |-> text]

ToolRes == {"ok", "fail", "err"}
\* the outcomes of an invocation whose spawn error the code maps to the same
\* result as a non-zero exit status (unwrap_or(false), is_err() || !success())
ProbeRes == {"ok", "fail"}
YesNo   == {"yes", "no"}

Done(ok) == [log |-> <<>>, ok |-> ok, val |-> <<>>]
DoneVal(v) == [log |-> <<>>, ok |-> TRUE, val |-> v]

\* the runs of S after the effects l
Pre(l, S) == {[r EXCEPT !.log = l \o @] : r \in S}

\* A; B where B does not depend on the value of A: an Err of A is returned (?)
Then(A, B) ==
    {a \in A : ~a.ok} \cup
    UNION {Pre(a.log, B) : a \in {x \in A : x.ok}}

\* let _ = A; B
ThenIgnore(A, B) == UNION {Pre(a.log, B) : a \in A}

IsCall(e, prog) == e.k = "call" /\ e.name = prog
IsNotification(e, level) == e.k = "ev" /\ e.name = "Notification" /\ e.tag = level

Calls(log) == {i \in DOMAIN log : log[i].k = "call"}
CallsOf(log, prog) == {i \in DOMAIN log : IsCall(log[i], prog)}

\* A read-only probe: a look at the file system, findmnt, cryptsetup isLuks
\* and cryptsetup status.  An operation that calls other operations records
\* the probes it makes itself; the probes made inside a nested operation are
\* left out of its log (the nested operation's tool runs and events are kept).
IsProbe(e) ==
    \/ e.k = "fs"
    \/ e.k = "call" /\ e.name = "findmnt"
    \/ e.k = "call" /\ e.name = "cryptsetup" /\ e.args[1] \in {<<"isLuks">>, <<"status">>}

NotProbe(e) == ~IsProbe(e)

Nested(S) == {[r EXCEPT !.log = SelectSeq(@, NotProbe)] : r \in S}

---------------------------------------------------------------------------
(* The environment: device registry and block-device inventories *)

sda    == <<"s","d","a">>
sdb    == <<"s","d","b">>
sda1   == <<"s","d","a","1">>
sdb1   == <<"s","d","b","1">>
sdb2   == <<"s","d","b","2">>
luks_sda1 == LuksPrefix \o sda1
control   == <<"c","o","n","t","r","o","l">>
cryptroot == <<"c","r","y","p","t","r","o","o","t">>

\* /dev/mapper as read_dir lists it: the mapping's name, the device line of
\* `cryptsetup status`, and the outcome of that invocation
Registries ==
    { <<>>,
      <<[mapper |-> control, device |-> <<>>, res |-> "fail"],
        [mapper |-> cryptroot, device |-> dev_path(sdb1), res |-> "ok"],
        [mapper |-> luks_sda1, device |-> dev_path(sda1), res |-> "ok"]>> }

\* get_device_path, given whether /dev/mapper/<name> exists
get_device_path(device_name, mapper_exists) ==
    IF starts_with(device_name, LuksPrefix)
    THEN IF mapper_exists THEN mapper_path(device_name)
         ELSE dev_path(SubSeq(device_name, Len(LuksPrefix) + 1, Len(device_name)))
    ELSE IF mapper_exists THEN mapper_path(device_name)
         ELSE dev_path(device_name)

\* the runs of get_device_path: val is the path
device_path_runs(device_name) ==
    {[log |-> <<Probe("exists", mapper_path(device_name), yn)>>, ok |-> TRUE,
      val |-> get_device_path(device_name, yn = "yes")] : yn \in YesNo}

\* is_luks_device: Ok(true) exactly when cryptsetup isLuks exits with status 0
is_luks_device(device, res) ==
    Call("cryptsetup", <<W("isLuks"), dev_path(device)>>, res)

\* get_luks_status over one registry: the entries examined, in order, up to
\* the first whose device line ends with the name or equals /dev/<name>
LuksMatches(reg, device) ==
    {i \in DOMAIN reg :
        /\ reg[i].mapper # control
        /\ reg[i].res = "ok"
        /\ (ends_with(reg[i].device, device) \/ reg[i].device = dev_path(device))}

Min(S) == CHOOSE x \in S : \A y \in S : x <= y

luks_status_of(reg, device) ==
    LET hits == LuksMatches(reg, device)
        upto == IF hits = {} THEN Len(reg) ELSE Min(hits)
        seen == {i \in 1..upto : reg[i].mapper # control}
        nth(j) == CHOOSE i \in seen : Cardinality({h \in seen : h < i}) = j - 1
    IN  [log |-> <<Probe("read_dir", W("/dev/mapper"), "yes")>> \o
                 [j \in 1..Cardinality(seen) |->
                     CallOut("cryptsetup", <<W("status"), reg[nth(j)].mapper>>,
                             reg[nth(j)].res, <<reg[nth(j)].device>>)],
         ok |-> hits # {},
         val |-> IF hits = {} THEN <<>> ELSE reg[Min(hits)].mapper]

\* get_luks_status: always Ok; ok is is_active, val the mapper name
get_luks_status(device) ==
    {[log |-> <<Probe("read_dir", W("/dev/mapper"), "no")>>, ok |-> FALSE, val |-> <<>>]}
    \cup {luks_status_of(reg, device) : reg \in Registries}

\* is_mounted: ok is Ok(_), val is <<"true">> or <<"false">>
is_mounted(partition) ==
    UNION {Pre(d.log,
               {[log |-> <<Call("findmnt", <<W("-n"), d.val>>, res)>>,
                 ok |-> res # "err",
                 val |-> IF res = "ok" THEN W("true") ELSE W("false")] : res \in ToolRes})
           : d \in device_path_runs(partition)}

---------------------------------------------------------------------------
(* The operation engine: mount and unmount *)

\* a run that ends after the effects l
Stop(l, ok) == {[log |-> l, ok |-> ok, val |-> <<>>]}

mnt_path(partition) == <<"/","m","n","t","/">> \o partition

\* mount_partition from the existence test of the device path on
mount_device(partition, device_path) ==
    Stop(<<Probe("exists", device_path, "no"),
           Notification_send("Device does not exist", "Error")>>, FALSE)
    \cup
    Pre(<<Probe("exists", device_path, "yes")>>,
        Stop(<<Call("mkdir", <<W("-p"), mnt_path(partition)>>, "err")>>, FALSE)
        \cup
        Pre(<<Call("mkdir", <<W("-p"), mnt_path(partition)>>, "ok")>>,
            Stop(<<Call("mount", <<device_path, mnt_path(partition)>>, "err")>>, FALSE)
            \cup
            Stop(<<Call("mount", <<device_path, mnt_path(partition)>>, "fail"),
                   Notification_send("Mount failed", "Error")>>, FALSE)
            \cup
            Stop(<<Call("mount", <<device_path, mnt_path(partition)>>, "ok"),
                   Notification_send("Mounted", "Info")>>, TRUE)))

\* mount_partition from the is_mounted test on
mount_unencrypted(partition) ==
    UNION {IF ~m.ok THEN {m}
           ELSE IF m.val = W("true")
           THEN Pre(m.log, Stop(<<Notification_send("already mounted", "Warning")>>, TRUE))
           ELSE Pre(m.log, UNION {Pre(d.log, mount_device(partition, d.val))
                                  : d \in device_path_runs(partition)})
           : m \in is_mounted(partition)}

\* A mutant of mount_partition: the name is not validated.
mount_partition_unvalidated(partition) ==
    UNION {Pre(<<is_luks_device(partition, res)>>, mount_unencrypted(partition))
           : res \in ProbeRes}

\* operations.rs mount_partition
mount_partition(partition) ==
    IF ~validate_device_name(partition) THEN Stop(<<>>, FALSE)
    ELSE UNION {
        Pre(<<is_luks_device(partition, res)>>,
            IF res = "ok"
            THEN UNION {Pre(s.log,
                            IF s.ok
                            THEN Stop(<<Notification_send(
                                          "is an unlocked encrypted device", "Error")>>, FALSE)
                            ELSE Stop(<<Notification_send(
                                          "is a locked encrypted device", "Error")>>, FALSE))
                        : s \in get_luks_status(partition)}
            ELSE mount_unencrypted(partition))
        : res \in ProbeRes}

\* the outcomes of `umount <path>` under the five-second timeout; a failure
\* whose standard error names a busy target is "fail" with that text
UmountRes == {<<"ok", <<>>>>, <<"fail", <<>>>>, <<"fail", <<W("target is busy")>>>>,
              <<"err", <<>>>>, <<"timeout", <<>>>>}

\* unmount_partition: the lazy-unmount fallback, from its Info notification on
lazy_unmount(partition, device_path) ==
    Pre(<<Notification_send("Device is busy. Attempting lazy unmount...", "Info"),
          StartProgress("Lazy unmounting")>>,
        Stop(<<Call("umount", <<W("-l"), device_path>>, "err")>>, FALSE)
        \cup
        Stop(<<Call("umount", <<W("-l"), device_path>>, "fail"),
               EndProgress,
               Notification_send("Lazy unmount failed", "Error")>>, FALSE)
        \cup
        Stop(<<Call("umount", <<W("-l"), device_path>>, "ok"),
               EndProgress,
               Call("rmdir", <<mnt_path(partition)>>, "ok"),
               Notification_send("Lazy unmounted", "Info")>>, TRUE))

\* unmount_partition from StartProgress on
unmount_device(partition, device_path) ==
    UNION {
        Pre(<<StartProgress("Unmounting"),
              CallOut("umount", <<device_path>>, u[1], u[2])>>,
            IF u[1] = "err"
            THEN Stop(<<EndProgress, Notification_send("Failed to unmount", "Error")>>, FALSE)
            ELSE IF u[1] = "timeout"
            THEN Pre(<<EndProgress>>, lazy_unmount(partition, device_path))
            ELSE IF u[1] = "fail"
            THEN IF u[2] # <<>>
                 THEN Pre(<<EndProgress>>, lazy_unmount(partition, device_path))
                 ELSE Stop(<<EndProgress, Notification_send("Unmount failed", "Error")>>, FALSE)
            ELSE Stop(<<EndProgress,
                        Call("rmdir", <<mnt_path(partition)>>, "ok"),
                        Notification_send("Unmounted", "Info")>>, TRUE))
        : u \in UmountRes}

\* unmount_partition from the is_mounted test on
unmount_checked(partition) ==
    UNION {IF ~m.ok THEN {m}
           ELSE IF m.val = W("false")
           THEN Pre(m.log, Stop(<<Notification_send("not mounted", "Warning")>>, TRUE))
           ELSE Pre(m.log, UNION {
                    Pre(d.log,
                        Stop(<<Probe("exists", d.val, "no"),
                               Notification_send("Device does not exist", "Error")>>, FALSE)
                        \cup
                        Pre(<<Probe("exists", d.val, "yes")>>,
                            unmount_device(partition, d.val)))
                    : d \in device_path_runs(partition)})
           : m \in is_mounted(partition)}

\* operations.rs unmount_partition
unmount_partition(partition) ==
    IF ~validate_device_name(partition) THEN Stop(<<>>, FALSE)
    ELSE UNION {
        Pre(<<is_luks_device(partition, res)>>,
            IF res = "ok"
            THEN UNION {Pre(s.log,
                            IF s.ok
                            THEN Stop(<<Notification_send(
                                          "is an encrypted device that is unlocked",
                                          "Error")>>, FALSE)
                            ELSE unmount_checked(partition))
                        : s \in get_luks_status(partition)}
            ELSE unmount_checked(partition))
        : res \in ProbeRes}

---------------------------------------------------------------------------
(* The operation engine: inventories, formatting, partition creation *)

\* what lsblk reports: the disks, each with its size in bytes and its
\* partitions in order (filesystem <<>> is None).  The probes list_block_devices makes for each
\* partition (cryptsetup, findmnt, df) only fill display fields and are
\* folded into the one lsblk effect.
Inventory(id) ==
    CASE id = "none"  -> <<>>
      [] id = "empty" -> <<[name |-> sdb, size |-> Sci(<<1>>, 9), partitions |-> <<>>]>>
      [] id = "one"   -> <<[name |-> sda, size |-> Sci(<<2>>, 9),
                            partitions |-> <<[name |-> sda1, size |-> Sci(<<1>>, 9),
                                              filesystem |-> W("ext4")]>>],
                           [name |-> sdb, size |-> Sci(<<1>>, 9),
                            partitions |-> <<[name |-> sdb1, size |-> Sci(<<5>>, 8),
                                              filesystem |-> W("xfs")]>>]>>
      [] id = "two"   -> <<[name |-> sda, size |-> Sci(<<2>>, 9),
                            partitions |-> <<[name |-> sda1, size |-> Sci(<<1>>, 9),
                                              filesystem |-> W("ntfs")]>>],
                           [name |-> sdb, size |-> Sci(<<1>>, 9),
                            partitions |-> <<[name |-> sdb1, size |-> Sci(<<5>>, 8),
                                              filesystem |-> W("btrfs")],
                                             [name |-> sdb2, size |-> Sci(<<2,5>>, 7),
                                              filesystem |-> <<>>]>>]>>
      [] id = "full"  -> <<[name |-> sdb, size |-> Sci(<<1>>, 9),
                            partitions |-> <<[name |-> sdb1, size |-> Sci(<<1>>, 9),
                                              filesystem |-> W("vfat")]>>]>>

InventoryIds == {"none", "empty", "one", "two", "full"}

\* devices.iter().find(|d| d.name == disk): the index of the disk, 0 when absent
FindDisk(inv, disk) ==
    IF \E i \in DOMAIN inv : inv[i].name = disk
    THEN Min({i \in DOMAIN inv : inv[i].name = disk})
    ELSE 0

\* list_block_devices: the lsblk invocation; a run that is ok carries the
\* inventory id in the text of its effect
Lsblk(res, id) ==
    [k |-> "call", name |-> "lsblk", tag |-> "", args |-> <<W("-J"), W("-b")>>,
     res |-> res, lines |-> <<>>, text |-> id]

list_block_devices ==
    {[log |-> <<Lsblk(res, "")>>, ok |-> FALSE, val |-> <<>>] : res \in {"fail", "err"}}
    \cup {[log |-> <<Lsblk("ok", id)>>, ok |-> TRUE, val |-> W(id)] : id \in InventoryIds}

FilesystemTypes == {"ext4", "fat32", "ntfs", "exfat", "btrfs", "xfs"}

mkfs_cmd(fs_type) ==
    CASE fs_type = "ext4"  -> "mkfs.ext4"
      [] fs_type = "fat32" -> "mkfs.fat"
      [] fs_type = "ntfs"  -> "mkfs.ntfs"
      [] fs_type = "exfat" -> "mkfs.exfat"
      [] fs_type = "btrfs" -> "mkfs.btrfs"
      [] fs_type = "xfs"   -> "mkfs.xfs"

mkfs_args(fs_type, device_path) ==
    CASE fs_type = "ext4"  -> <<W("-F"), W("-E"),
                                W("lazy_itable_init=1,lazy_journal_init=1"), device_path>>
      [] fs_type = "fat32" -> <<W("-F"), W("32"), device_path>>
      [] fs_type = "ntfs"  -> <<W("-f"), W("-Q"), device_path>>
      [] fs_type = "exfat" -> <<device_path>>
      [] fs_type = "btrfs" -> <<W("-f"), device_path>>
      [] fs_type = "xfs"   -> <<W("-f"), device_path>>

\* format_partition from the tool check on
format_device(fs_type, device_path) ==
    Stop(<<Call("which", <<W(mkfs_cmd(fs_type))>>, "fail"),
           Notification_send("Formatting tool not found. Install the required package.",
                                 "Error")>>, FALSE)
    \cup
    Pre(<<Call("which", <<W(mkfs_cmd(fs_type))>>, "ok"),
          StartProgress("Formatting")>>,
        Stop(<<Call(mkfs_cmd(fs_type), mkfs_args(fs_type, device_path), "err"),
               EndProgress,
               Notification_send("Failed to execute", "Error")>>, FALSE)
        \cup
        Stop(<<Call(mkfs_cmd(fs_type), mkfs_args(fs_type, device_path), "fail"),
               EndProgress,
               Notification_send("Format failed", "Error")>>, FALSE)
        \cup
        Stop(<<Call(mkfs_cmd(fs_type), mkfs_args(fs_type, device_path), "ok"),
               EndProgress,
               Notification_send("Formatted", "Info")>>, TRUE))

\* format_partition from the is_mounted test of the actual device on
format_actual(actual_device, fs_type) ==
    UNION {IF ~m.ok THEN {m}
           ELSE IF m.val = W("true")
           THEN Pre(m.log, Stop(<<Notification_send("is mounted. Unmount it first",
                                                    "Error")>>, FALSE))
           ELSE Pre(m.log, UNION {
                    Pre(d.log,
                        Stop(<<Probe("exists", d.val, "no"),
                               Notification_send("Device does not exist", "Error")>>, FALSE)
                        \cup
                        Pre(<<Probe("exists", d.val, "yes")>>,
                            format_device(fs_type, d.val)))
                    : d \in device_path_runs(actual_device)})
           : m \in is_mounted(actual_device)}

\* operations.rs format_partition
format_partition(partition, fs_type) ==
    IF ~validate_device_name(partition) THEN Stop(<<>>, FALSE)
    ELSE UNION {
        Pre(<<is_luks_device(partition, res)>>,
            IF res = "ok"
            THEN UNION {Pre(s.log,
                            IF s.ok
                            THEN Pre(<<Notification_send("is encrypted and unlocked",
                                                         "Info")>>,
                                     format_actual(s.val, fs_type))
                            ELSE Stop(<<Notification_send("is encrypted and locked",
                                                          "Error")>>, FALSE))
                        : s \in get_luks_status(partition)}
            ELSE format_actual(partition, fs_type))
        : res \in ProbeRes}

\* operations.rs create_partition_table: table_type is passed to parted as given
create_partition_table(disk, table_type) ==
    IF ~validate_device_name(disk) THEN Stop(<<>>, FALSE)
    ELSE
        Stop(<<Call("parted", <<W("-s"), dev_path(disk), W("mklabel"), table_type>>,
                    "err")>>, FALSE)
        \cup
        Stop(<<Call("parted", <<W("-s"), dev_path(disk), W("mklabel"), table_type>>,
                    "fail"),
               Notification_send("Create table failed", "Error")>>, FALSE)
        \cup
        Stop(<<Call("parted", <<W("-s"), dev_path(disk), W("mklabel"), table_type>>,
                    "ok"),
               Notification_send("Created partition table", "Info")>>, TRUE)

\* format!("{}MB", n)
MB(n) == NatToStr(n) \o <<"M","B">>

mkpart_args(disk, start_mb, end_mb) ==
    <<W("-s"), dev_path(disk), W("mkpart"), W("primary"), MB(start_mb), MB(end_mb)>>

\* create_partition_raw after parted succeeded: the second inventory and the
\* last partition of the disk in it
find_new_partition(disk) ==
    UNION {IF ~l.ok THEN {l}
           ELSE LET inv == Inventory(l.val[1])
                    i   == FindDisk(inv, disk)
                IN  IF i # 0 /\ inv[i].partitions # <<>>
                    THEN {[log |-> l.log, ok |-> TRUE,
                           val |-> inv[i].partitions[Len(inv[i].partitions)].name]}
                    ELSE Stop(l.log, FALSE)
           : l \in list_block_devices}

\* create_partition_on without the comparison of the request with the free space
create_partition_on_unbounded(disk, size_input, device) ==
    LET used_space == NatSum([i \in DOMAIN device.partitions |-> device.partitions[i].size])
        free_space == saturating_sub(device.size, used_space)
        requested  == IF trim(size_input) = <<>> THEN [ok |-> TRUE, val |-> free_space]
                      ELSE parse_size(size_input)
        args       == mkpart_args(disk, NatDivPow10(used_space, 6),
                                  NatDivPow10(NatAdd(used_space, requested.val), 6))
    IN  IF free_space = <<0>>
        THEN Stop(<<Notification_send("No free space available", "Error")>>, FALSE)
        ELSE IF ~requested.ok
        THEN Stop(<<>>, FALSE)
        ELSE Stop(<<Call("parted", args, "err")>>, FALSE)
             \cup
             Pre(<<Call("parted", args, "ok")>>, find_new_partition(disk))

\* create_partition_raw from the free-space computation on
create_partition_on(disk, size_input, device) ==
    LET used_space == NatSum([i \in DOMAIN device.partitions |-> device.partitions[i].size])
        free_space == saturating_sub(device.size, used_space)
        requested  == IF trim(size_input) = <<>> THEN [ok |-> TRUE, val |-> free_space]
                      ELSE parse_size(size_input)
        start_mb   == NatDivPow10(used_space, 6)
        end_mb     == NatDivPow10(NatAdd(used_space, requested.val), 6)
        args       == mkpart_args(disk, start_mb, end_mb)
    IN  IF free_space = <<0>>
        THEN Stop(<<Notification_send("No free space available", "Error")>>, FALSE)
        ELSE IF ~requested.ok
        THEN Stop(<<>>, FALSE)
        ELSE IF NatLess(free_space, requested.val)
        THEN Stop(<<Notification_send("Requested size exceeds available space",
                                      "Error")>>, FALSE)
        ELSE Stop(<<Call("parted", args, "err")>>, FALSE)
             \cup
             Stop(<<Call("parted", args, "fail"),
                    Notification_send("Create partition failed", "Error")>>, FALSE)
             \cup
             Pre(<<Call("parted", args, "ok")>>, find_new_partition(disk))

\* operations.rs create_partition_raw: val is the name of the new partition
create_partition_raw(disk, size_input) ==
    IF ~validate_device_name(disk) THEN Stop(<<>>, FALSE)
    ELSE UNION {
        IF ~l.ok THEN {l}
        ELSE LET inv == Inventory(l.val[1])
                 i   == FindDisk(inv, disk)
             IN  IF i = 0
                 THEN Pre(l.log, Stop(<<Notification_send("Disk not found", "Error")>>,
                                      FALSE))
                 ELSE Pre(l.log, create_partition_on(disk, size_input, inv[i]))
        : l \in list_block_devices}

\* A mutant of create_partition_with_fs: the partition is created twice.
create_partition_twice(disk, size_input, fs_type) ==
    Pre(<<StartProgress("Creating partition")>>,
        UNION {IF ~r.ok THEN {r}
               ELSE Pre(r.log,
                        UNION {IF ~q.ok THEN {[q EXCEPT !.val = <<>>]}
                               ELSE Pre(q.log, format_partition(q.val, fs_type))
                               : q \in create_partition_raw(disk, size_input)})
               : r \in create_partition_raw(disk, size_input)})

\* operations.rs create_partition_with_fs
create_partition_with_fs(disk, size_input, fs_type) ==
    Pre(<<StartProgress("Creating partition")>>,
        UNION {IF ~r.ok THEN {r}
               ELSE Pre(r.log \o <<Notification_send("Formatting", "Info")>>,
                        UNION {IF ~f.ok THEN {f}
                               ELSE Pre(f.log,
                                        Stop(<<EndProgress,
                                               Notification_send(
                                                   "Created and formatted partition",
                                                   "Info")>>, TRUE))
                               : f \in format_partition(r.val, fs_type)})
               : r \in create_partition_raw(disk, size_input)})

---------------------------------------------------------------------------
(* The resize engine *)

\* A partition-table descriptor as `sfdisk -d` prints it.  A line is either
\* raw text (a header, a blank line) or a partition line with its device,
\* its start and size fields and its further attributes.  A word of several
\* characters stands for that run of characters: it contains no ':', ','
\* or blank, and no text the code searches for begins or ends inside it.
RawLine(text) == [kind |-> "raw", text |-> text, dev |-> <<>>, start |-> <<>>,
                  size |-> <<>>, attrs |-> <<>>]
PartLine(dev, start, size, attrs) ==
    [kind |-> "part", text |-> <<>>, dev |-> dev, start |-> start, size |-> size,
     attrs |-> attrs]

RECURSIVE JoinAttrs(_)
JoinAttrs(attrs) ==
    IF attrs = <<>> THEN <<>> ELSE <<",", " ">> \o Head(attrs) \o JoinAttrs(Tail(attrs))

\* the text of a descriptor line
Render(line) ==
    IF line.kind = "raw" THEN line.text
    ELSE line.dev \o <<" ", ":", " ">>
         \o (IF line.start = <<>> THEN <<>> ELSE line.start \o <<",", " ">>)
         \o <<"size", "=">> \o line.size \o JoinAttrs(line.attrs)

RenderTable(table) == [i \in DOMAIN table |-> Render(table[i])]

sda10 == <<"s","d","a","1","0">>
sda2  == <<"s","d","a","2">>

LabelLine  == RawLine(<<"label", ":", " ", "gpt">>)
DeviceLine == RawLine(<<"device", ":", " ">> \o dev_path(sda))
Start(n)   == <<"start", "=", " ", " ">> \o n
Type83     == <<"type", "=", "8", "3">>

Tables ==
    { \* a plain table
      <<LabelLine, DeviceLine, RawLine(<<>>),
        PartLine(dev_path(sda1), Start(<<"2","0","4","8">>), <<" ","4","0","9","6">>,
                 <<Type83, <<"bootable">>>>),
        PartLine(dev_path(sda2), Start(<<"8","1","9","2">>), <<"4","0","9","6">>,
                 <<Type83>>)>>,
      \* attribute values that contain ':' and ','
      <<LabelLine,
        PartLine(dev_path(sda1), Start(<<"2","0","4","8">>), <<"4","0","9","6">>,
                 <<Type83, <<"attrs", "=", "\"", "GUID", ":", "6", "3", "\"">>>>)>>,
      <<LabelLine,
        PartLine(dev_path(sda1), Start(<<"2","0","4","8">>), <<"4","0","9","6">>,
                 <<<<"name", "=", "\"", "a", ",", "b", "\"">>>>)>>,
      \* the target is absent, but a longer name contains it
      <<LabelLine,
        PartLine(dev_path(sda10), Start(<<"2","0","4","8">>), <<"4","0","9","6">>,
                 <<Type83>>)>>,
      \* the target is absent
      <<LabelLine,
        PartLine(dev_path(sda2), Start(<<"2","0","4","8">>), <<"4","0","9","6">>,
                 <<Type83>>)>>,
      \* the target line has no start field
      <<PartLine(dev_path(sda1), <<>>, <<"4","0","9","6">>, <<Type83>>)>>,
      \* the table of the second disk
      <<LabelLine,
        PartLine(dev_path(sdb1), Start(<<"2","0","4","8">>), <<"4","0","9","6">>,
                 <<Type83>>),
        PartLine(dev_path(sdb2), Start(<<"8","1","9","2">>), <<"4","0","9","6">>,
                 <<Type83>>)>> }

\* (new_size_bytes + 511) / 512 in u64 arithmetic
size_sectors(new_size_bytes) ==
    NatDivSmall(wrapping_add(new_size_bytes, <<5,1,1>>), 512)

\* the pieces of a target line after the device: start_str and other_attrs
RECURSIVE scan_parts(_, _, _)
scan_parts(parts, start_str, other_attrs) ==
    IF parts = <<>> THEN [start_str |-> start_str, other_attrs |-> other_attrs]
    ELSE LET trimmed == trim(Head(parts))
         IN  IF starts_with(trimmed, <<"start">>)
             THEN scan_parts(Tail(parts), trimmed, other_attrs)
             ELSE IF starts_with(trimmed, <<"size">>)
             THEN scan_parts(Tail(parts), start_str, other_attrs)
             ELSE IF trimmed # <<>>
             THEN scan_parts(Tail(parts), start_str, Append(other_attrs, trimmed))
             ELSE scan_parts(Tail(parts), start_str, other_attrs)

\* the body of the rewrite loop for one line: the new line, whether the line
\* set `found`, and whether it made the function return (no start field)
rewrite_line(line, disk, part_num, new_size_bytes) ==
    LET expected_dev   == dev_path(disk) \o part_num
        expected_dev_p == dev_path(disk) \o <<"p">> \o part_num
        parts          == split(line, {":", ","})
        device_part    == trim(parts[1])
        scanned        == scan_parts(Tail(parts), <<>>, <<>>)
    IN  IF ~(contains(line, expected_dev) \/ contains(line, expected_dev_p))
        THEN [line |-> line, found |-> FALSE, abort |-> FALSE]
        ELSE IF device_part # expected_dev /\ device_part # expected_dev_p
        THEN [line |-> line, found |-> TRUE, abort |-> FALSE]
        ELSE IF scanned.start_str = <<>>
        THEN [line |-> line, found |-> TRUE, abort |-> TRUE]
        ELSE [line |-> device_part \o <<" ", ":", " ">> \o scanned.start_str
                       \o <<",", " ", "size", "=">>
                       \o NatToStr(size_sectors(new_size_bytes))
                       \o JoinAttrs(scanned.other_attrs),
              found |-> TRUE, abort |-> FALSE]

\* the rewrite loop over the lines of the dump
rewrite_table(lines, disk, part_num, new_size_bytes) ==
    LET r(i) == rewrite_line(lines[i], disk, part_num, new_size_bytes)
    IN  [new_table |-> [i \in DOMAIN lines |-> r(i).line],
         found     |-> \E i \in DOMAIN lines : r(i).found,
         abort     |-> \E i \in DOMAIN lines : r(i).abort]

resize_tmp(partition) == W("/tmp/disktui_resize_") \o partition

\* A mutant of resize_via_mount: the temporary mount is cleaned up only
\* after a resize that succeeded.
resize_via_mount_leaky(partition, tool, tool_args) ==
    LET device_path == dev_path(partition)
        mount_point == resize_tmp(partition)
    IN  Stop(<<Call("mkdir", <<W("-p"), mount_point>>, "err")>>, FALSE)
        \cup
        Pre(<<Call("mkdir", <<W("-p"), mount_point>>, "ok")>>,
            Stop(<<Call("mount", <<device_path, mount_point>>, "err")>>, FALSE)
            \cup
            Stop(<<Call("mount", <<device_path, mount_point>>, "fail"),
                   Call("rmdir", <<mount_point>>, "ok"),
                   Notification_send("Failed to mount for resize", "Error")>>, FALSE)
            \cup
            UNION {Stop(<<Call("mount", <<device_path, mount_point>>, "ok"),
                          Call(tool, tool_args, res)>>
                        \o (IF res = "ok"
                            THEN <<Call("umount", <<mount_point>>, "ok"),
                                   Call("rmdir", <<mount_point>>, "ok")>>
                            ELSE <<Notification_send("resize failed", "Error")>>),
                        res = "ok")
                   : res \in ToolRes})

\* resize_filesystem for xfs (growing) and btrfs: mount on a temporary
\* directory, resize, unmount, remove the directory
resize_via_mount(partition, tool, tool_args) ==
    LET device_path == dev_path(partition)
        mount_point == resize_tmp(partition)
    IN  Stop(<<Call("mkdir", <<W("-p"), mount_point>>, "err")>>, FALSE)
        \cup
        Pre(<<Call("mkdir", <<W("-p"), mount_point>>, "ok")>>,
            Stop(<<Call("mount", <<device_path, mount_point>>, "err")>>, FALSE)
            \cup
            Stop(<<Call("mount", <<device_path, mount_point>>, "fail"),
                   Call("rmdir", <<mount_point>>, "ok"),
                   Notification_send("Failed to mount for resize", "Error")>>, FALSE)
            \cup
            UNION {Stop(<<Call("mount", <<device_path, mount_point>>, "ok"),
                          Call(tool, tool_args, res),
                          Call("umount", <<mount_point>>, "ok"),
                          Call("rmdir", <<mount_point>>, "ok")>>
                        \o (IF res = "ok" THEN <<>>
                            ELSE <<Notification_send("resize failed", "Error")>>),
                        res = "ok")
                   : res \in ToolRes})

\* operations.rs resize_filesystem; filesystem <<>> is None
resize_filesystem(partition, filesystem, new_size_bytes, is_growing) ==
    LET device_path == dev_path(partition)
        size_k      == NatToStr(NatDivSmall(new_size_bytes, 1024)) \o <<"K">>
        ext_args    == IF is_growing THEN <<device_path>> ELSE <<device_path, size_k>>
        ntfs_args   == IF is_growing THEN <<W("-f"), device_path>>
                       ELSE <<W("-f"), W("-s"), NatToStr(new_size_bytes), device_path>>
    IN  IF filesystem = <<>>
        THEN Stop(<<Notification_send("No filesystem detected", "Warning")>>, TRUE)
        ELSE IF filesystem \in {W("ext4"), W("ext3"), W("ext2")}
        THEN Stop(<<Call("resize2fs", ext_args, "err")>>, FALSE)
             \cup
             Stop(<<Call("resize2fs", ext_args, "fail"),
                    Notification_send("Filesystem resize failed", "Error")>>, FALSE)
             \cup
             Stop(<<Call("resize2fs", ext_args, "ok")>>, TRUE)
        ELSE IF filesystem = W("xfs")
        THEN IF ~is_growing
             THEN Stop(<<Notification_send("XFS does not support shrinking", "Error")>>,
                       FALSE)
             ELSE resize_via_mount(partition, "xfs_growfs", <<resize_tmp(partition)>>)
        ELSE IF filesystem = W("ntfs")
        THEN Stop(<<Call("ntfsresize", ntfs_args, "err"),
                    Notification_send("ntfsresize not found", "Error")>>, FALSE)
             \cup
             Stop(<<Call("ntfsresize", ntfs_args, "fail"),
                    Notification_send("NTFS resize failed", "Error")>>, FALSE)
             \cup
             Stop(<<Call("ntfsresize", ntfs_args, "ok")>>, TRUE)
        ELSE IF filesystem = W("btrfs")
        THEN resize_via_mount(partition, "btrfs",
                 <<W("filesystem"), W("resize"),
                   IF is_growing THEN W("max") ELSE NatToStr(new_size_bytes),
                   resize_tmp(partition)>>)
        ELSE IF filesystem \in {W("vfat"), W("fat32"), W("exfat")}
        THEN Stop(<<Notification_send("cannot be easily resized", "Warning")>>, TRUE)
        ELSE Stop(<<Notification_send("resize not supported", "Warning")>>, TRUE)

\* the tools that resize a filesystem
FsResizeTools == {"resize2fs", "xfs_growfs", "ntfsresize", "btrfs"}

\* the split of a validated partition name into disk and partition number
\* (parse::<usize>, printed back with {}): ok is FALSE when the code returns
\* an error, early is TRUE when it sends EndProgress first
split_partition_name(partition) ==
    LET p    == LastIndexOf(partition, "p")
        disk == trim_end_numeric(partition)
        num  == IF starts_with(partition, <<"n","v","m","e">>)
                   \/ starts_with(partition, <<"m","m","c","b","l","k">>)
                THEN SubSeq(partition, p + 1, Len(partition))
                ELSE trim_start_matches(partition, disk)
        numOk == num # <<>> /\ AllDigits(num)
    IN  IF starts_with(partition, <<"n","v","m","e">>)
           \/ starts_with(partition, <<"m","m","c","b","l","k">>)
        THEN IF p = 0
             THEN [ok |-> FALSE, early |-> TRUE, disk |-> <<>>, part_num |-> <<>>]
             ELSE [ok |-> numOk, early |-> FALSE, disk |-> SubSeq(partition, 1, p - 1),
                   part_num |-> IF numOk THEN NatToStr(StrToNat(num)) ELSE <<>>]
        ELSE [ok |-> numOk, early |-> FALSE, disk |-> disk,
              part_num |-> IF numOk THEN NatToStr(StrToNat(num)) ELSE <<>>]

\* p.name == partition among the partitions of a disk: the index, 0 when absent
FindPartition(device, partition) ==
    IF \E i \in DOMAIN device.partitions : device.partitions[i].name = partition
    THEN Min({i \in DOMAIN device.partitions : device.partitions[i].name = partition})
    ELSE 0

\* resize_partition_and_filesystem from the table write on
write_table(partition, disk, new_table, filesystem, new_size_bytes, is_growing) ==
    LET args == <<W("--force"), W("--no-reread"), dev_path(disk)>>
        finish == Stop(<<EndProgress, Notification_send("Successfully resized", "Info")>>,
                       TRUE)
    IN  Stop(<<CallIn("sfdisk", args, "err", <<>>)>>, FALSE)
        \cup
        Stop(<<CallIn("sfdisk", args, "fail", new_table),
               EndProgress,
               Notification_send("Failed to resize partition", "Error")>>, FALSE)
        \cup
        Pre(<<CallIn("sfdisk", args, "ok", new_table),
              Call("partprobe", <<dev_path(disk)>>, "ok")>>,
            IF is_growing
            THEN Pre(<<Notification_send("Expanding filesystem...", "Info")>>,
                     Then(resize_filesystem(partition, filesystem, new_size_bytes, TRUE),
                          finish))
            ELSE finish)

\* resize_partition_and_filesystem from the table dump on
rewrite_partition(partition, disk, part_num, filesystem, new_size_bytes, is_growing) ==
    LET dump == <<W("-d"), dev_path(disk)>>
    IN  Pre(<<Notification_send("Resizing partition...", "Info")>>,
            Stop(<<Call("sfdisk", dump, "err")>>, FALSE)
            \cup
            Stop(<<Call("sfdisk", dump, "fail"),
                   EndProgress,
                   Notification_send("Failed to read partition table", "Error")>>, FALSE)
            \cup
            UNION {
                LET lines == RenderTable(table)
                    rw    == rewrite_table(lines, disk, part_num, new_size_bytes)
                IN  Pre(<<CallOut("sfdisk", dump, "ok", lines)>>,
                        IF rw.abort
                        THEN Stop(<<EndProgress,
                                    Notification_send("Could not parse partition table",
                                                      "Error")>>, FALSE)
                        ELSE IF ~rw.found
                        THEN Stop(<<EndProgress,
                                    Notification_send(
                                        "Partition not found in partition table",
                                        "Error")>>, FALSE)
                        ELSE write_table(partition, disk, rw.new_table, filesystem,
                                         new_size_bytes, is_growing))
                : table \in Tables})

\* A mutant of resize_unmounted: the filesystem is resized before the table
\* rewrite whether the partition grows or shrinks.
resize_filesystem_first(partition, new_size_input) ==
    LET name == split_partition_name(partition)
        size == parse_size(new_size_input)
    IN  IF ~name.ok
        THEN Stop(<<StartProgress("Resizing")>> \o
                  (IF name.early THEN <<EndProgress>> ELSE <<>>), FALSE)
        ELSE IF ~size.ok
        THEN Stop(<<StartProgress("Resizing")>>, FALSE)
        ELSE Pre(<<StartProgress("Resizing")>>,
                 UNION {
                    IF ~l.ok THEN {l}
                    ELSE LET inv == Inventory(l.val[1])
                             d   == FindDisk(inv, name.disk)
                             i   == IF d = 0 THEN 0 ELSE FindPartition(inv[d], partition)
                             cur == inv[d].partitions[i]
                             is_growing == NatLess(cur.size, size.val)
                         IN  IF d = 0 \/ i = 0 THEN Stop(l.log, FALSE)
                             ELSE IF is_growing
                             THEN Pre(l.log,
                                      Then(resize_filesystem(partition, cur.filesystem,
                                                             size.val, TRUE),
                                           rewrite_partition(partition, name.disk,
                                                             name.part_num, cur.filesystem,
                                                             size.val, TRUE)))
                             ELSE Pre(l.log \o <<Notification_send("Shrinking filesystem...",
                                                                   "Info")>>,
                                      Then(resize_filesystem(partition, cur.filesystem,
                                                             size.val, FALSE),
                                           rewrite_partition(partition, name.disk,
                                                             name.part_num, cur.filesystem,
                                                             size.val, FALSE)))
                    : l \in list_block_devices})

\* A mutant of resize_unmounted: the result of the shrink of the filesystem
\* is ignored.
resize_shrink_unchecked(partition, new_size_input) ==
    LET name == split_partition_name(partition)
        size == parse_size(new_size_input)
    IN  IF ~name.ok
        THEN Stop(<<StartProgress("Resizing")>> \o
                  (IF name.early THEN <<EndProgress>> ELSE <<>>), FALSE)
        ELSE IF ~size.ok
        THEN Stop(<<StartProgress("Resizing")>>, FALSE)
        ELSE Pre(<<StartProgress("Resizing")>>,
                 UNION {
                    IF ~l.ok THEN {l}
                    ELSE LET inv == Inventory(l.val[1])
                             d   == FindDisk(inv, name.disk)
                             i   == IF d = 0 THEN 0 ELSE FindPartition(inv[d], partition)
                             cur == inv[d].partitions[i]
                             is_growing == NatLess(cur.size, size.val)
                         IN  IF d = 0 \/ i = 0 THEN Stop(l.log, FALSE)
                             ELSE IF is_growing
                             THEN Pre(l.log,
                                      rewrite_partition(partition, name.disk, name.part_num,
                                                        cur.filesystem, size.val, TRUE))
                             ELSE Pre(l.log \o <<Notification_send("Shrinking filesystem...",
                                                                   "Info")>>,
                                      ThenIgnore(resize_filesystem(partition, cur.filesystem,
                                                                   size.val, FALSE),
                                                 rewrite_partition(partition, name.disk,
                                                                   name.part_num,
                                                                   cur.filesystem,
                                                                   size.val, FALSE)))
                    : l \in list_block_devices})

\* resize_partition_and_filesystem from StartProgress on
resize_unmounted(partition, new_size_input) ==
    LET name == split_partition_name(partition)
        size == parse_size(new_size_input)
    IN  IF ~name.ok
        THEN Stop(<<StartProgress("Resizing")>> \o
                  (IF name.early THEN <<EndProgress>> ELSE <<>>), FALSE)
        ELSE IF ~size.ok
        THEN Stop(<<StartProgress("Resizing")>>, FALSE)
        ELSE Pre(<<StartProgress("Resizing")>>,
                 UNION {
                    IF ~l.ok THEN {l}
                    ELSE LET inv == Inventory(l.val[1])
                             d   == FindDisk(inv, name.disk)
                             i   == IF d = 0 THEN 0 ELSE FindPartition(inv[d], partition)
                             cur == inv[d].partitions[i]
                             is_growing == NatLess(cur.size, size.val)
                         IN  IF d = 0 \/ i = 0 THEN Stop(l.log, FALSE)
                             ELSE IF is_growing
                             THEN Pre(l.log,
                                      rewrite_partition(partition, name.disk, name.part_num,
                                                        cur.filesystem, size.val, TRUE))
                             ELSE Pre(l.log \o <<Notification_send("Shrinking filesystem...",
                                                                   "Info")>>,
                                      Then(resize_filesystem(partition, cur.filesystem,
                                                             size.val, FALSE),
                                           rewrite_partition(partition, name.disk,
                                                             name.part_num, cur.filesystem,
                                                             size.val, FALSE)))
                    : l \in list_block_devices})

\* A mutant of resize_partition_and_filesystem: a mounted partition is
\* resized like an unmounted one.
resize_ignoring_mount(partition, new_size_input) ==
    IF ~validate_device_name(partition) THEN Stop(<<>>, FALSE)
    ELSE Stop(<<is_luks_device(partition, "ok"),
                Notification_send("is an encrypted partition", "Error")>>, FALSE)
         \cup
         Pre(<<is_luks_device(partition, "fail")>>,
             UNION {IF ~m.ok THEN {m}
                    ELSE Pre(m.log, resize_unmounted(partition, new_size_input))
                    : m \in is_mounted(partition)})

\* operations.rs resize_partition_and_filesystem
resize_partition_and_filesystem(partition, new_size_input) ==
    IF ~validate_device_name(partition) THEN Stop(<<>>, FALSE)
    ELSE Stop(<<is_luks_device(partition, "ok"),
                Notification_send("is an encrypted partition", "Error")>>, FALSE)
         \cup
         Pre(<<is_luks_device(partition, "fail")>>,
             UNION {IF ~m.ok THEN {m}
                    ELSE IF m.val = W("true")
                    THEN Pre(m.log, Stop(<<Notification_send(
                                               "is mounted. Unmount it first", "Error")>>,
                                         FALSE))
                    ELSE Pre(m.log, resize_unmounted(partition, new_size_input))
                    : m \in is_mounted(partition)})


---------------------------------------------------------------------------
(* The operation engine: LUKS, deletion, whole-disk formatting *)

\* operations.rs lock_luks_device
lock_luks_device(mapper_name) ==
    LET findmnt(res) == Call("findmnt", <<W("-n"), mapper_path(mapper_name)>>, res)
        close(res)   == Call("cryptsetup", <<W("close"), mapper_name>>, res)
    IN  IF ~validate_device_name(mapper_name) THEN Stop(<<>>, FALSE)
        ELSE Stop(<<findmnt("ok"),
                    Notification_send("is mounted. Unmount it first.", "Error")>>, FALSE)
             \cup
             Pre(<<findmnt("fail"), StartProgress("Locking")>>,
                 Stop(<<close("err"), EndProgress,
                        Notification_send("Failed to lock", "Error")>>, FALSE)
                 \cup
                 Stop(<<close("timeout"), EndProgress,
                        Notification_send("Lock operation timed out", "Error")>>, FALSE)
                 \cup
                 Stop(<<close("fail"), EndProgress,
                        Notification_send("Lock failed", "Error")>>, FALSE)
                 \cup
                 Stop(<<close("ok"),
                        Call("udevadm", <<W("settle"), W("--timeout=10")>>, "ok"),
                        EndProgress,
                        Notification_send("Locked", "Info")>>, TRUE))

\* unlock_luks_device taking a failed `cryptsetup open` for a success
unlock_luks_misreported(device, passphrase, mapper_name) ==
    LET open(res) == CallIn("cryptsetup", <<W("open"), dev_path(device), mapper_name>>,
                            res, IF res = "err" THEN <<>> ELSE <<passphrase>>)
    IN  IF ~validate_device_name(device) \/ ~validate_device_name(mapper_name)
        THEN Stop(<<>>, FALSE)
        ELSE UNION {
            Pre(s.log,
                IF s.ok
                THEN Stop(<<Notification_send("is already unlocked", "Warning")>>, TRUE)
                ELSE Pre(<<StartProgress("Unlocking")>>,
                         Stop(<<open("err")>>, FALSE)
                         \cup
                         UNION {Stop(<<open(res), EndProgress,
                                       Notification_send("Unlocked", "Info")>>, TRUE)
                                : res \in {"ok", "fail"}}))
            : s \in get_luks_status(device)}

\* operations.rs unlock_luks_device
unlock_luks_device(device, passphrase, mapper_name) ==
    LET open(res) == CallIn("cryptsetup", <<W("open"), dev_path(device), mapper_name>>,
                            res, IF res = "err" THEN <<>> ELSE <<passphrase>>)
    IN  IF ~validate_device_name(device) THEN Stop(<<>>, FALSE)
        ELSE IF ~validate_device_name(mapper_name) THEN Stop(<<>>, FALSE)
        ELSE UNION {
            Pre(s.log,
                IF s.ok
                THEN Stop(<<Notification_send("is already unlocked", "Warning")>>, TRUE)
                ELSE Pre(<<StartProgress("Unlocking")>>,
                         Stop(<<open("err")>>, FALSE)
                         \cup
                         Stop(<<open("fail"), EndProgress,
                                Notification_send("Unlock failed", "Error")>>, FALSE)
                         \cup
                         Stop(<<open("ok"),
                                Call("udevadm", <<W("settle"), W("--timeout=10")>>, "ok"),
                                EndProgress,
                                Notification_send("Unlocked", "Info")>>, TRUE)))
            : s \in get_luks_status(device)}

\* operations.rs encrypt_partition
encrypt_partition(partition, passphrase) ==
    LET luksFormat(res) ==
            CallIn("cryptsetup",
                   <<W("luksFormat"), W("--type"), W("luks2"), W("--batch-mode"),
                     dev_path(partition)>>,
                   res, IF res = "err" THEN <<>> ELSE <<passphrase>>)
    IN  IF ~validate_device_name(partition) THEN Stop(<<>>, FALSE)
        ELSE UNION {
            IF ~m.ok THEN {m}
            ELSE IF m.val = W("true")
            THEN Pre(m.log, Stop(<<Notification_send("is mounted. Unmount it first.",
                                                     "Error")>>, FALSE))
            ELSE Pre(m.log \o <<StartProgress("Encrypting")>>,
                     Stop(<<luksFormat("err")>>, FALSE)
                     \cup
                     Stop(<<luksFormat("fail"), EndProgress,
                            Notification_send("Encryption failed", "Error")>>, FALSE)
                     \cup
                     Stop(<<luksFormat("ok"), EndProgress,
                            Notification_send("Encrypted with LUKS2", "Info")>>, TRUE))
            : m \in is_mounted(partition)}

\* wait_for_device: the device appears and blockdev succeeds before the
\* timeout, or the timeout elapses first
wait_for_device(device_path) ==
    Stop(<<Probe("exists", device_path, "yes"),
           Call("blockdev", <<W("--getsize64"), device_path>>, "ok")>>, TRUE)
    \cup
    Stop(<<Probe("exists", device_path, "no")>>, FALSE)

\* encrypt_and_format_partition going on to the unlock whatever the
\* encryption returned
encrypt_and_format_unchecked(partition, passphrase, fs_type) ==
    LET mapper_name == LuksPrefix \o partition
    IN  IF ~validate_device_name(partition) THEN Stop(<<>>, FALSE)
        ELSE Pre(<<StartProgress("Encrypting")>>,
             ThenIgnore(Nested(encrypt_partition(partition, passphrase)),
             Then(Nested(unlock_luks_device(partition, passphrase, mapper_name)),
             Then(wait_for_device(mapper_path(mapper_name)),
             Then(Nested(format_partition(mapper_name, fs_type)),
                  Stop(<<EndProgress>>, TRUE))))))

\* operations.rs encrypt_and_format_partition
encrypt_and_format_partition(partition, passphrase, fs_type) ==
    LET mapper_name == LuksPrefix \o partition
    IN  IF ~validate_device_name(partition) THEN Stop(<<>>, FALSE)
        ELSE Pre(<<StartProgress("Encrypting")>>,
             Then(Nested(encrypt_partition(partition, passphrase)),
             Pre(<<Notification_send("Unlocking encrypted partition...", "Info")>>,
             Then(Nested(unlock_luks_device(partition, passphrase, mapper_name)),
             Then(wait_for_device(mapper_path(mapper_name)),
             Pre(<<Call("udevadm", <<W("settle"), W("--timeout=10")>>, "ok"),
                   Notification_send("Formatting with", "Info")>>,
             Then(Nested(format_partition(mapper_name, fs_type)),
                  Stop(<<EndProgress,
                         Notification_send("encrypted and formatted successfully",
                                           "Info")>>, TRUE))))))))

\* operations.rs create_encrypted_partition_with_fs
create_encrypted_partition_with_fs(disk, size_input, passphrase, fs_type) ==
    Pre(<<StartProgress("Creating encrypted partition")>>,
        UNION {IF ~r.ok THEN {r}
               ELSE Pre(r.log,
                        Then(Nested(encrypt_and_format_partition(r.val, passphrase, fs_type)),
                             Stop(<<Notification_send("Created encrypted partition",
                                                      "Info")>>, TRUE)))
               : r \in create_partition_raw(disk, size_input)})

\* format_whole_disk and delete_partition: an active mapping of the partition
\* is unmounted if mounted, and closed
close_mapping(partition) ==
    UNION {
        Pre(s.log,
            IF ~s.ok THEN {Done(TRUE)}
            ELSE UNION {
                Pre(<<Call("findmnt", <<W("-n"), mapper_path(s.val)>>, res)>>,
                    Then(IF res = "ok" THEN Nested(unmount_partition(s.val)) ELSE {Done(TRUE)},
                         Pre(<<Notification_send("Closing encrypted device", "Info")>>,
                             Nested(lock_luks_device(s.val)))))
                : res \in ProbeRes})
        : s \in get_luks_status(partition)}

\* the loop of format_whole_disk over the partitions of the disk
RECURSIVE close_mappings(_)
close_mappings(partitions) ==
    IF partitions = <<>> THEN {Done(TRUE)}
    ELSE Then(close_mapping(Head(partitions).name), close_mappings(Tail(partitions)))

\* A mutant of delete_entry: a header wipe that fails ends the deletion.
delete_entry_wipe_fatal(partition, is_luks) ==
    LET disk  == trim_end_numeric(partition)
        part_num == trim_start_matches(partition, trim_end_numeric(partition))
        rm(res) == Call("parted", <<W("-s"), dev_path(disk), W("rm"), part_num>>, res)
        wipe  == IF ~is_luks THEN {Done(TRUE)}
                 ELSE UNION {
                     Stop(<<Notification_send("Wiping LUKS header", "Info"),
                            Call("wipefs", <<W("-a"), dev_path(partition)>>, res),
                            IF res = "ok"
                            THEN Notification_send("LUKS header wiped", "Info")
                            ELSE Notification_send("Warning: LUKS header not wiped",
                                                   "Warning")>>, res = "ok")
                     : res \in ToolRes}
    IN  Then(wipe,
             Pre(<<Notification_send("Deleting partition", "Info")>>,
                 Stop(<<rm("err")>>, FALSE)
                 \cup
                 Stop(<<rm("fail"),
                        Notification_send("Delete partition failed", "Error")>>, FALSE)
                 \cup
                 UNION {
                     Stop(<<rm("ok"), Call("partprobe", <<dev_path(disk)>>, res)>>
                          \o (IF res = "fail"
                              THEN <<Notification_send("Warning: partprobe failed",
                                                       "Warning")>>
                              ELSE <<>>)
                          \o <<Notification_send("Successfully deleted partition",
                                                 "Info")>>, TRUE)
                     : res \in ToolRes}))

\* delete_partition from the header wipe on
delete_entry(partition, is_luks) ==
    LET nvme  == starts_with(partition, <<"n","v","m","e">>)
                 \/ starts_with(partition, <<"m","m","c","b","l","k">>)
        p     == LastIndexOf(partition, "p")
        disk  == IF nvme THEN SubSeq(partition, 1, p - 1) ELSE trim_end_numeric(partition)
        part_num == IF nvme THEN SubSeq(partition, p + 1, Len(partition))
                    ELSE trim_start_matches(partition, trim_end_numeric(partition))
        rm(res) == Call("parted", <<W("-s"), dev_path(disk), W("rm"), part_num>>, res)
        wipe  == IF ~is_luks THEN {Done(TRUE)}
                 ELSE UNION {
                     Stop(<<Notification_send("Wiping LUKS header", "Info"),
                            Call("wipefs", <<W("-a"), dev_path(partition)>>, res),
                            IF res = "ok"
                            THEN Notification_send("LUKS header wiped", "Info")
                            ELSE Notification_send("Warning: LUKS header not wiped",
                                                   "Warning")>>, TRUE)
                     : res \in ToolRes}
    IN  Then(wipe,
             IF nvme /\ p = 0 THEN Stop(<<>>, FALSE)
             ELSE Pre(<<Notification_send("Deleting partition", "Info")>>,
                      Stop(<<rm("err")>>, FALSE)
                      \cup
                      Stop(<<rm("fail"),
                             Notification_send("Delete partition failed", "Error")>>, FALSE)
                      \cup
                      UNION {
                          Stop(<<rm("ok"), Call("partprobe", <<dev_path(disk)>>, res)>>
                               \o (IF res = "fail"
                                   THEN <<Notification_send("Warning: partprobe failed",
                                                            "Warning")>>
                                   ELSE <<>>)
                               \o <<Notification_send("Successfully deleted partition",
                                                      "Info")>>, TRUE)
                          : res \in ToolRes}))

\* A mutant of delete_partition: a mounted partition is deleted without
\* being unmounted.
delete_partition_still_mounted(partition) ==
    IF ~validate_device_name(partition) THEN Stop(<<>>, FALSE)
    ELSE UNION {
        Pre(<<is_luks_device(partition, lr)>>,
            Then(close_mapping(partition),
                 UNION {IF ~m.ok THEN {m}
                        ELSE Pre(m.log, delete_entry(partition, lr = "ok"))
                        : m \in is_mounted(partition)}))
        : lr \in ProbeRes}

\* operations.rs delete_partition
delete_partition(partition) ==
    IF ~validate_device_name(partition) THEN Stop(<<>>, FALSE)
    ELSE UNION {
        Pre(<<is_luks_device(partition, lr)>>,
            Then(close_mapping(partition),
                 UNION {IF ~m.ok THEN {m}
                        ELSE Pre(m.log,
                                 Then(IF m.val = W("true")
                                      THEN Nested(unmount_partition(partition))
                                      ELSE {Done(TRUE)},
                                      delete_entry(partition, lr = "ok")))
                        : m \in is_mounted(partition)}))
        : lr \in ProbeRes}

\* format_whole_disk from the tool check on
format_disk(disk, fs_type) ==
    LET mklabel(res) == Call("parted", <<W("-s"), dev_path(disk), W("mklabel"), W("gpt")>>,
                             res)
        mkpart(res)  == Call("parted", <<W("-s"), dev_path(disk), W("mkpart"),
                                         W("primary"), W("0%"), W("100%")>>, res)
    IN  Stop(<<Call("which", <<W(mkfs_cmd(fs_type))>>, "fail"),
               Notification_send("Formatting tool not found. Install the required package.",
                                 "Error")>>, FALSE)
        \cup
        Pre(<<Call("which", <<W(mkfs_cmd(fs_type))>>, "ok"),
              StartProgress("Formatting as whole disk")>>,
            Stop(<<mklabel("err")>>, FALSE)
            \cup
            Stop(<<mklabel("fail"), EndProgress,
                   Notification_send("Failed to create partition table", "Error")>>, FALSE)
            \cup
            Pre(<<mklabel("ok")>>,
                Stop(<<mkpart("err")>>, FALSE)
                \cup
                Stop(<<mkpart("fail"), EndProgress,
                       Notification_send("Failed to create partition", "Error")>>, FALSE)
                \cup
                Pre(<<mkpart("ok"), Call("partprobe", <<dev_path(disk)>>, "ok")>>,
                    UNION {
                        IF ~l.ok THEN {l}
                        ELSE LET inv == Inventory(l.val[1])
                                 i   == FindDisk(inv, disk)
                             IN  IF i # 0 /\ inv[i].partitions # <<>>
                                 THEN Pre(l.log,
                                          Then(Nested(format_partition(
                                                   inv[i].partitions[1].name, fs_type)),
                                               Stop(<<EndProgress,
                                                      Notification_send(
                                                          "Formatted as whole disk",
                                                          "Info")>>, TRUE)))
                                 ELSE Pre(l.log, Stop(<<EndProgress>>, FALSE))
                        : l \in list_block_devices})))

\* operations.rs format_whole_disk
format_whole_disk(disk, fs_type) ==
    IF ~validate_device_name(disk) THEN Stop(<<>>, FALSE)
    ELSE UNION {
        IF ~l.ok THEN {l}
        ELSE LET inv == Inventory(l.val[1])
                 i   == FindDisk(inv, disk)
             IN  Pre(l.log,
                     Then(IF i = 0 THEN {Done(TRUE)} ELSE close_mappings(inv[i].partitions),
                          format_disk(disk, fs_type)))
        : l \in list_block_devices}

---------------------------------------------------------------------------
(* The privileged helper: disktui-helper.rs *)

\* ResponseWriter::notify, progress_start, progress_end: one line each
writer_notify(level, text) == Resp("notification", level, text)
writer_progress_start(text) == Resp("progress", "start", text)
writer_progress_end == Resp("progress", "end", "")

\* Response::ok() and Response::error(message) as written by main
Response_ok == Resp("ok", "", "")
Response_error(text) == Resp("error", "", text)

\* a run that returns Err(anyhow!(text)) after the effects l
Fail(l, text) == {[log |-> l, ok |-> FALSE, val |-> W(text)]}

\* the helper's get_device_path: a luks- name is always a mapper path
helper_get_device_path(device_name, mapper_exists) ==
    IF starts_with(device_name, LuksPrefix) THEN mapper_path(device_name)
    ELSE IF mapper_exists THEN mapper_path(device_name)
    ELSE dev_path(device_name)

helper_device_path_runs(device_name) ==
    IF starts_with(device_name, LuksPrefix)
    THEN {DoneVal(helper_get_device_path(device_name, FALSE))}
    ELSE {[log |-> <<Probe("exists", mapper_path(device_name), yn)>>, ok |-> TRUE,
           val |-> helper_get_device_path(device_name, yn = "yes")] : yn \in YesNo}

\* the helper's is_mounted: Err when findmnt cannot be spawned
helper_is_mounted(partition) ==
    UNION {Pre(d.log,
               {[log |-> <<Call("findmnt", <<W("-n"), d.val>>, res)>>,
                 ok |-> res # "err",
                 val |-> IF res = "ok" THEN W("true")
                         ELSE IF res = "fail" THEN W("false")
                         ELSE W("Failed to check mount status")] : res \in ToolRes})
           : d \in helper_device_path_runs(partition)}

\* what findmnt -n -o TARGET can print: a directory under /mnt/, another
\* directory, or nothing
MountPoints(device) == {mnt_path(device), <<"/","h","o","m","e">>, <<>>}

\* get_device_mount_point: val is the mount point, <<>> for None
get_device_mount_point(device, device_path) ==
    {[log |-> <<CallOut("findmnt", <<W("-n"), W("-o"), W("TARGET"), device_path>>,
                        IF mp = <<>> THEN "fail" ELSE "ok", <<mp>>)>>,
      ok |-> TRUE, val |-> mp] : mp \in MountPoints(device)}

\* the rmdir of a mount point under /mnt/ (its result is ignored)
rmdir_mount_point(mp) ==
    IF mp # <<>> /\ starts_with(mp, <<"/","m","n","t","/">>)
    THEN <<Call("rmdir", <<mp>>, "ok")>>
    ELSE <<>>

\* the helper's mount_partition from get_device_path on
helper_mount_device(device, device_path) ==
    Fail(<<Probe("exists", device_path, "no")>>, "Device does not exist")
    \cup
    Pre(<<Probe("exists", device_path, "yes")>>,
        Fail(<<Call("mkdir", <<W("-p"), mnt_path(device)>>, "err")>>, "io error")
        \cup
        Pre(<<Call("mkdir", <<W("-p"), mnt_path(device)>>, "ok"),
              writer_progress_start("Mounting")>>,
            Fail(<<Call("mount", <<device_path, mnt_path(device)>>, "err")>>,
                 "Failed to execute mount")
            \cup
            Fail(<<Call("mount", <<device_path, mnt_path(device)>>, "fail"),
                   writer_progress_end,
                   Call("rmdir", <<mnt_path(device)>>, "ok")>>, "Mount failed")
            \cup
            Stop(<<Call("mount", <<device_path, mnt_path(device)>>, "ok"),
                   writer_progress_end,
                   writer_notify("info", "Mounted")>>, TRUE)))

\* disktui-helper.rs mount_partition
helper_mount_partition(device) ==
    IF ~helper_validate_device_name(device) THEN Fail(<<>>, "Invalid device name")
    ELSE UNION {IF ~m.ok THEN {m}
                ELSE IF m.val = W("true")
                THEN Pre(m.log, Stop(<<writer_notify("warning", "already mounted")>>, TRUE))
                ELSE Pre(m.log, UNION {Pre(d.log, helper_mount_device(device, d.val))
                                       : d \in helper_device_path_runs(device)})
                : m \in helper_is_mounted(device)}

\* the outcomes of the helper's `umount <path>`; no timeout is applied, so
\* an umount that blocks for more than five seconds is awaited to its end
HelperUmountRes == {<<"ok", <<>>>>, <<"fail", <<>>>>, <<"fail", <<W("target is busy")>>>>,
                    <<"err", <<>>>>, <<"late", <<>>>>}

\* the helper's unmount_partition: the lazy-unmount fallback
helper_lazy_unmount(device_path, mp) ==
    Pre(<<writer_notify("warning", "Device is busy. Attempting lazy unmount...")>>,
        Fail(<<Call("umount", <<W("-l"), device_path>>, "err")>>, "io error")
        \cup
        Fail(<<Call("umount", <<W("-l"), device_path>>, "fail")>>, "Lazy unmount failed")
        \cup
        Stop(<<Call("umount", <<W("-l"), device_path>>, "ok")>> \o rmdir_mount_point(mp)
             \o <<writer_notify("warning", "Lazy unmount initiated")>>, TRUE))

\* the helper's unmount_partition from progress_start on
helper_unmount_device(device_path, mp) ==
    UNION {
        Pre(<<writer_progress_start("Unmounting"),
              CallOut("umount", <<device_path>>, u[1], u[2])>>,
            IF u[1] = "err" THEN Fail(<<>>, "Failed to execute umount")
            ELSE IF u[1] = "fail"
            THEN IF u[2] # <<>>
                 THEN Pre(<<writer_progress_end>>, helper_lazy_unmount(device_path, mp))
                 ELSE Fail(<<writer_progress_end>>, "Unmount failed")
            ELSE Stop(<<writer_progress_end>> \o rmdir_mount_point(mp)
                      \o <<writer_notify("info", "Unmounted")>>, TRUE))
        : u \in HelperUmountRes}

\* disktui-helper.rs unmount_partition
helper_unmount_partition(device) ==
    IF ~helper_validate_device_name(device) THEN Fail(<<>>, "Invalid device name")
    ELSE UNION {IF ~m.ok THEN {m}
                ELSE IF m.val = W("false")
                THEN Pre(m.log, Stop(<<writer_notify("warning", "not mounted")>>, TRUE))
                ELSE Pre(m.log, UNION {
                        Pre(d.log, UNION {
                            Pre(p.log, helper_unmount_device(d.val, p.val))
                            : p \in get_device_mount_point(device, d.val)})
                        : d \in helper_device_path_runs(device)})
                : m \in helper_is_mounted(device)}

\* the filesystem names the helper's format_partition accepts
HelperFilesystemTypes == {"ext4", "fat32", "vfat", "ntfs", "exfat", "btrfs", "xfs"}

helper_mkfs_cmd(fs_type) ==
    CASE fs_type = "ext4"  -> "mkfs.ext4"
      [] fs_type \in {"fat32", "vfat"} -> "mkfs.fat"
      [] fs_type = "ntfs"  -> "mkfs.ntfs"
      [] fs_type = "exfat" -> "mkfs.exfat"
      [] fs_type = "btrfs" -> "mkfs.btrfs"
      [] fs_type = "xfs"   -> "mkfs.xfs"

helper_mkfs_args(fs_type, device_path) ==
    CASE fs_type \in {"fat32", "vfat"} -> <<W("-F"), W("32"), device_path>>
      [] fs_type = "ntfs"              -> <<W("-f"), W("-Q"), device_path>>
      [] fs_type \in {"btrfs", "xfs"}  -> <<W("-f"), device_path>>
      [] OTHER                         -> <<device_path>>

\* the helper's format_partition from the existence test on
helper_format_device(fs_type, device_path) ==
    Fail(<<Probe("exists", device_path, "no")>>, "Device does not exist")
    \cup
    Pre(<<Probe("exists", device_path, "yes")>>,
        IF fs_type \notin HelperFilesystemTypes
        THEN Fail(<<>>, "Unsupported filesystem type")
        ELSE LET cmd  == helper_mkfs_cmd(fs_type)
                 args == helper_mkfs_args(fs_type, device_path)
             IN  Fail(<<Call("which", <<W(cmd)>>, "err")>>, "io error")
                 \cup
                 Fail(<<Call("which", <<W(cmd)>>, "fail")>>,
                      "not found. Install the appropriate package.")
                 \cup
                 Pre(<<Call("which", <<W(cmd)>>, "ok"),
                       writer_progress_start("Formatting")>>,
                     Fail(<<Call(cmd, args, "err")>>, "Failed to execute mkfs")
                     \cup
                     Fail(<<Call(cmd, args, "fail"), writer_progress_end>>,
                          "Format failed")
                     \cup
                     Stop(<<Call(cmd, args, "ok"), writer_progress_end,
                            writer_notify("info", "Formatted")>>, TRUE)))

\* disktui-helper.rs format_partition
helper_format_partition(device, fs_type) ==
    IF ~helper_validate_device_name(device) THEN Fail(<<>>, "Invalid device name")
    ELSE UNION {Pre(d.log, helper_format_device(fs_type, d.val))
                : d \in helper_device_path_runs(device)}

\* disktui-helper.rs create_partition_table
helper_create_partition_table(disk, table_type) ==
    IF ~helper_validate_device_name(disk) THEN Fail(<<>>, "Invalid device name")
    ELSE IF table_type \notin {"gpt", "mbr", "msdos"}
    THEN Fail(<<>>, "Unsupported partition table type")
    ELSE LET label == IF table_type = "gpt" THEN "gpt" ELSE "msdos"
             args  == <<W("-s"), dev_path(disk), W("mklabel"), W(label)>>
         IN  Pre(<<writer_progress_start("Creating partition table")>>,
                 Fail(<<Call("parted", args, "err")>>, "Failed to execute parted")
                 \cup
                 Fail(<<Call("parted", args, "fail"), writer_progress_end>>,
                      "Failed to create partition table")
                 \cup
                 Stop(<<Call("parted", args, "ok"), writer_progress_end,
                        writer_notify("info", "Created partition table")>>, TRUE))

\* the decimal digits of a small number
RECURSIVE IntDigits(_)
IntDigits(n) == IF n < 10 THEN <<n>> ELSE Append(IntDigits(n \div 10), n % 10)

\* a * k for a small k, digit by digit from the right with a carry
RECURSIVE MulFrom(_, _, _, _)
MulFrom(a, k, i, carry) ==
    IF i = 0 THEN (IF carry = 0 THEN <<>> ELSE IntDigits(carry))
    ELSE LET t == a[i] * k + carry
         IN  Append(MulFrom(a, k, i - 1, t \div 10), t % 10)

NatMulSmall(a, k) == NatNorm(MulFrom(a, k, Len(a), 0))

\* 1_048_576, as a TLC integer and as a byte count
MiBInt == 1048576
MiB == IntDigits(MiBInt)

\* what `parted -s -m ... unit B print` reports: the greatest end offset among
\* its partition lines (<<>> when it lists none, or none beyond 1 MiB);
\* 524287999 is the last byte of a partition that ends at 500 MiB
PartedEnds == {<<>>, Sci(<<5>>, 8), <<5,2,4,2,8,7,9,9,9>>}

\* get_last_partition_end_bytes: val is the aligned start offset
get_last_partition_end_bytes(disk) ==
    LET args == <<W("-s"), W("-m"), dev_path(disk), W("unit"), W("B"), W("print")>>
        aligned(last_end) ==
            NatMulSmall(NatDivSmall(NatAdd(last_end, MiB), MiBInt), MiBInt)
    IN  Fail(<<Call("parted", args, "err")>>, "Failed to execute parted")
        \cup
        {[log |-> <<Call("parted", args, "fail")>>, ok |-> TRUE, val |-> MiB]}
        \cup
        {[log |-> <<CallOut("parted", args, "ok", <<e>>)>>, ok |-> TRUE,
          val |-> aligned(IF e = <<>> THEN MiB ELSE e)] : e \in PartedEnds}

\* what `lsblk -b -d -n -o SIZE` prints: a size, or text that does not parse
\* (unwrap_or(0))
DiskSizes == {Sci(<<1>>, 9), <<0>>}

\* what `lsblk -J -o NAME` lists under the disk: the last child, if any
LastChildren == {<<>>, sdb1, luks_sda1}

\* the helper's create_partition after parted mkpart succeeded
helper_find_new_partition(disk, fs_type) ==
    LET args == <<W("-J"), W("-o"), W("NAME"), dev_path(disk)>>
    IN  Fail(<<Call("lsblk", args, "err")>>, "io error")
        \cup
        Fail(<<CallOut("lsblk", args, "ok", <<>>)>>, "Failed to find new partition")
        \cup
        UNION {
            Pre(<<CallOut("lsblk", args, "ok", <<c>>)>>,
                IF fs_type = <<>>
                THEN {[log |-> <<writer_progress_end,
                                 writer_notify("info", "Created partition")>>,
                       ok |-> TRUE, val |-> c]}
                ELSE UNION {IF ~f.ok THEN {f}
                            ELSE {[log |-> f.log \o <<writer_progress_end,
                                             writer_notify("info", "Created partition")>>,
                                   ok |-> TRUE, val |-> c]}
                            : f \in helper_format_partition(c, fs_type[1])})
            : c \in LastChildren \ {<<>>}}

\* the helper's create_partition from the free-space computation on
helper_create_partition_at(disk, size, fs_type, start_offset, disk_size) ==
    LET free_space == saturating_sub(disk_size, start_offset)
        requested  == IF trim(size) = <<>> THEN [ok |-> TRUE, val |-> free_space]
                      ELSE helper_parse_size(size)
        start_mb   == NatDivPow10(start_offset, 6)
        end_mb     == NatDivPow10(NatAdd(start_offset, requested.val), 6)
        args       == mkpart_args(disk, start_mb, end_mb)
    IN  IF free_space = <<0>> THEN Fail(<<>>, "No free space available")
        ELSE IF ~requested.ok THEN Fail(<<>>, "Invalid size format")
        ELSE IF NatLess(free_space, requested.val)
        THEN Fail(<<>>, "Requested size exceeds available space")
        ELSE Pre(<<writer_progress_start("Creating partition")>>,
                 Fail(<<Call("parted", args, "err")>>, "Failed to execute parted")
                 \cup
                 Fail(<<Call("parted", args, "fail"), writer_progress_end>>,
                      "Create partition failed")
                 \cup
                 Pre(<<Call("parted", args, "ok")>>,
                     helper_find_new_partition(disk, fs_type)))

\* disktui-helper.rs create_partition: fs_type is <<>> (None) or <<name>>;
\* val is the name of the new partition
helper_create_partition(disk, size, fs_type) ==
    IF ~helper_validate_device_name(disk) THEN Fail(<<>>, "Invalid device name")
    ELSE LET args == <<W("-b"), W("-d"), W("-n"), W("-o"), W("SIZE"), dev_path(disk)>>
         IN  UNION {
                IF ~s.ok THEN {s}
                ELSE Pre(s.log,
                         Fail(<<Call("lsblk", args, "err")>>, "io error")
                         \cup
                         UNION {Pre(<<CallOut("lsblk", args, "ok", <<NatToStr(z)>>)>>,
                                    helper_create_partition_at(disk, size, fs_type,
                                                               s.val, z))
                                : z \in DiskSizes})
                : s \in get_last_partition_end_bytes(disk)}

\* the helper's delete_partition from the name split on
helper_delete_entry(partition) ==
    LET nvme  == starts_with(partition, <<"n","v","m","e">>)
                 \/ starts_with(partition, <<"m","m","c","b","l","k">>)
        p     == LastIndexOf(partition, "p")
        disk  == IF nvme THEN SubSeq(partition, 1, p - 1) ELSE trim_end_numeric(partition)
        part_num == IF nvme THEN SubSeq(partition, p + 1, Len(partition))
                    ELSE trim_start_matches(partition, trim_end_numeric(partition))
        rm(res) == Call("parted", <<W("-s"), dev_path(disk), W("rm"), part_num>>, res)
    IN  IF (nvme /\ p = 0) \/ part_num = <<>> \/ \E i \in DOMAIN part_num :
                                                     ~is_numeric(part_num[i])
        THEN Fail(<<>>, "Invalid partition name format")
        ELSE Pre(<<writer_progress_start("Deleting partition")>>,
                 Fail(<<rm("err")>>, "Failed to execute parted")
                 \cup
                 Fail(<<rm("fail"), writer_progress_end>>, "Delete partition failed")
                 \cup
                 Stop(<<rm("ok"), writer_progress_end,
                        Call("partprobe", <<dev_path(disk)>>, "ok"),
                        writer_notify("info", "Deleted partition")>>, TRUE))

\* disktui-helper.rs delete_partition
helper_delete_partition(partition) ==
    IF ~helper_validate_device_name(partition) THEN Fail(<<>>, "Invalid device name")
    ELSE UNION {IF ~m.ok THEN {m}
                ELSE Pre(m.log,
                         Then(IF m.val = W("true")
                              THEN Nested(helper_unmount_partition(partition))
                              ELSE {Done(TRUE)},
                              helper_delete_entry(partition)))
                : m \in helper_is_mounted(partition)}

\* a cryptsetup invocation that reads the passphrase from its standard input,
\* between progress_start and progress_end
helper_cryptsetup(args, passphrase, start, failure, done) ==
    Pre(<<writer_progress_start(start)>>,
        Fail(<<CallIn("cryptsetup", args, "err", <<passphrase>>)>>, "io error")
        \cup
        Fail(<<CallIn("cryptsetup", args, "fail", <<passphrase>>), writer_progress_end>>,
             failure)
        \cup
        Stop(<<CallIn("cryptsetup", args, "ok", <<passphrase>>), writer_progress_end,
               writer_notify("info", done)>>, TRUE))

\* disktui-helper.rs unlock_luks
helper_unlock_luks(device, passphrase, mapper_name) ==
    IF ~helper_validate_device_name(device) \/ ~helper_validate_device_name(mapper_name)
    THEN Fail(<<>>, "Invalid device name")
    ELSE helper_cryptsetup(<<W("open"), dev_path(device), mapper_name>>, passphrase,
                           "Unlocking", "Failed to unlock", "Unlocked")

\* disktui-helper.rs lock_luks
helper_lock_luks(mapper_name) ==
    LET path == mapper_path(mapper_name)
        close(res) == Call("cryptsetup", <<W("close"), mapper_name>>, res)
        unmount == {<<Probe("exists", path, "no")>>}
                   \cup UNION {
                       IF p.val = <<>> THEN {<<Probe("exists", path, "yes")>> \o p.log}
                       ELSE {<<Probe("exists", path, "yes")>> \o p.log
                             \o <<writer_notify("info", "Unmounting first"),
                                  Call("umount", <<path>>, "ok")>>
                             \o rmdir_mount_point(p.val)}
                       : p \in get_device_mount_point(mapper_name, path)}
    IN  IF ~helper_validate_device_name(mapper_name)
        THEN Fail(<<>>, "Invalid device name")
        ELSE UNION {
            Pre(u \o <<writer_progress_start("Locking")>>,
                Fail(<<close("err")>>, "Failed to execute cryptsetup close")
                \cup
                Fail(<<close("fail"), writer_progress_end>>, "Failed to lock")
                \cup
                Stop(<<close("ok"), writer_progress_end,
                       writer_notify("info", "Locked")>>, TRUE))
            : u \in unmount}

\* disktui-helper.rs encrypt_partition
helper_encrypt_partition(partition, passphrase) ==
    IF ~helper_validate_device_name(partition) THEN Fail(<<>>, "Invalid device name")
    ELSE helper_cryptsetup(<<W("luksFormat"), W("--type"), W("luks2"), W("-q"),
                             dev_path(partition)>>, passphrase,
                           "Encrypting", "Encryption failed", "Encrypted with LUKS2")

\* disktui-helper.rs encrypt_and_format: the wait for the mapper path ends
\* when it exists or after ten tests
helper_encrypt_and_format(partition, passphrase, fs_type) ==
    LET mapper_name == LuksPrefix \o partition
        wait == {<<Probe("exists", mapper_path(mapper_name), yn)>> : yn \in YesNo}
    IN  Then(helper_encrypt_partition(partition, passphrase),
             Then(helper_unlock_luks(partition, passphrase, mapper_name),
                  UNION {Pre(w, Then(Nested(helper_format_partition(mapper_name, fs_type)),
                                     Stop(<<writer_notify("info",
                                              "Partition encrypted and formatted")>>,
                                          TRUE)))
                         : w \in wait}))

\* disktui-helper.rs format_whole_disk
helper_format_whole_disk(disk, fs_type) ==
    LET mklabel(res) == Call("parted", <<W("-s"), dev_path(disk), W("mklabel"), W("gpt")>>,
                             res)
        mkpart(res)  == Call("parted", <<W("-s"), dev_path(disk), W("mkpart"),
                                         W("primary"), W("1MiB"), W("100%")>>, res)
        partition    == IF starts_with(disk, <<"n","v","m","e">>)
                           \/ starts_with(disk, <<"m","m","c","b","l","k">>)
                        THEN disk \o <<"p","1">> ELSE disk \o <<"1">>
    IN  IF ~helper_validate_device_name(disk) THEN Fail(<<>>, "Invalid device name")
        ELSE Pre(<<writer_progress_start("Formatting entire disk")>>,
                 Fail(<<mklabel("err")>>, "io error")
                 \cup
                 Fail(<<mklabel("fail"), writer_progress_end>>,
                      "Failed to create partition table")
                 \cup
                 Pre(<<mklabel("ok")>>,
                     Fail(<<mkpart("err")>>, "io error")
                     \cup
                     Fail(<<mkpart("fail"), writer_progress_end>>,
                          "Failed to create partition")
                     \cup
                     Pre(<<mkpart("ok"), Call("partprobe", <<dev_path(disk)>>, "ok")>>,
                         Then(Nested(helper_format_partition(partition, fs_type)),
                              Stop(<<writer_progress_end,
                                     writer_notify("info", "Formatted as whole disk")>>,
                                   TRUE)))))

\* disktui-helper.rs resize_partition
helper_resize_partition(partition, new_size) ==
    IF ~helper_validate_device_name(partition) THEN Fail(<<>>, "Invalid device name")
    ELSE Fail(<<>>, "Partition resize not implemented yet")

\* disktui-helper.rs create_encrypted_partition
helper_create_encrypted_partition(disk, size, passphrase, fs_type) ==
    UNION {IF ~c.ok THEN {c}
           ELSE Pre(c.log, helper_encrypt_and_format(c.val, passphrase, fs_type))
           : c \in Nested(helper_create_partition(disk, size, <<>>))}

\* a request: its operation (the JSON "op" tag) and its fields in the order
\* protocol.rs declares them; an absent Option field is <<>>
Request(o, fields) == [op |-> o, args |-> fields]

\* what std::process::exit(0) leaves behind: no result, no further line
Exited == [log |-> <<>>, ok |-> TRUE, val |-> W("exit")]

\* A mutant of handle_request: shutdown returns Ok(()) like a request.
handle_request_shutdown_returns(request) ==
    LET a == request.args
    IN  CASE request.op = "mount"   -> helper_mount_partition(a[1])
          [] request.op = "unmount" -> helper_unmount_partition(a[1])
          [] request.op = "format"  -> helper_format_partition(a[1], a[2][1])
          [] request.op = "format_whole_disk" -> helper_format_whole_disk(a[1], a[2][1])
          [] request.op = "create_partition_table" ->
                helper_create_partition_table(a[1], a[2][1])
          [] request.op = "create_partition" ->
                {[r EXCEPT !.val = IF r.ok THEN <<>> ELSE @]
                 : r \in helper_create_partition(a[1], a[2], a[3])}
          [] request.op = "create_encrypted_partition" ->
                helper_create_encrypted_partition(a[1], a[2], a[3], a[4][1])
          [] request.op = "delete_partition" -> helper_delete_partition(a[1])
          [] request.op = "resize_partition" -> helper_resize_partition(a[1], a[2])
          [] request.op = "unlock_luks" -> helper_unlock_luks(a[1], a[2], a[3])
          [] request.op = "lock_luks"   -> helper_lock_luks(a[1])
          [] request.op = "encrypt_partition" -> helper_encrypt_partition(a[1], a[2])
          [] request.op = "encrypt_and_format" ->
                helper_encrypt_and_format(a[1], a[2], a[3][1])
          [] request.op = "shutdown" -> {Done(TRUE)}

\* disktui-helper.rs handle_request
handle_request(request) ==
    LET a == request.args
    IN  CASE request.op = "mount"   -> helper_mount_partition(a[1])
          [] request.op = "unmount" -> helper_unmount_partition(a[1])
          [] request.op = "format"  -> helper_format_partition(a[1], a[2][1])
          [] request.op = "format_whole_disk" -> helper_format_whole_disk(a[1], a[2][1])
          [] request.op = "create_partition_table" ->
                helper_create_partition_table(a[1], a[2][1])
          [] request.op = "create_partition" ->
                {[r EXCEPT !.val = IF r.ok THEN <<>> ELSE @]
                 : r \in helper_create_partition(a[1], a[2], a[3])}
          [] request.op = "create_encrypted_partition" ->
                helper_create_encrypted_partition(a[1], a[2], a[3], a[4][1])
          [] request.op = "delete_partition" -> helper_delete_partition(a[1])
          [] request.op = "resize_partition" -> helper_resize_partition(a[1], a[2])
          [] request.op = "unlock_luks" -> helper_unlock_luks(a[1], a[2], a[3])
          [] request.op = "lock_luks"   -> helper_lock_luks(a[1])
          [] request.op = "encrypt_partition" -> helper_encrypt_partition(a[1], a[2])
          [] request.op = "encrypt_and_format" ->
                helper_encrypt_and_format(a[1], a[2], a[3][1])
          [] request.op = "shutdown" -> {Exited}

\* a line of the helper's standard input: blank, text that does not
\* deserialize into a Request, or a request
BlankLine   == [kind |-> "blank", request |-> Request("", <<>>)]
GarbageLine == [kind |-> "garbage", request |-> Request("", <<>>)]
RequestLine(request) == [kind |-> "request", request |-> request]

\* A mutant of main_line: the result of a request that fails is dropped.
main_line_silent_failure(line) ==
    IF line.kind = "blank" THEN {Done(TRUE)}
    ELSE IF line.kind = "garbage"
    THEN Stop(<<Response_error("Invalid request")>>, FALSE)
    ELSE {IF r = Exited THEN r
          ELSE IF r.ok THEN [log |-> r.log \o <<Response_ok>>, ok |-> TRUE, val |-> <<>>]
          ELSE [log |-> r.log, ok |-> FALSE, val |-> <<>>]
          : r \in handle_request(line.request)}

\* A mutant of main_line: a line that is no request ends the loop.
main_line_fatal_garbage(line) ==
    IF line.kind = "blank" THEN {Done(TRUE)}
    ELSE IF line.kind = "garbage" THEN {Exited}
    ELSE {IF r = Exited THEN r
          ELSE IF r.ok THEN [log |-> r.log \o <<Response_ok>>, ok |-> TRUE, val |-> <<>>]
          ELSE [log |-> r.log \o <<Response_error(r.val[1])>>, ok |-> FALSE, val |-> <<>>]
          : r \in handle_request(line.request)}

\* one iteration of main's loop over the lines of standard input: the lines
\* written for this input line, ending with the terminal Ok or Error line
main_line(line) ==
    IF line.kind = "blank" THEN {Done(TRUE)}
    ELSE IF line.kind = "garbage"
    THEN Stop(<<Response_error("Invalid request")>>, FALSE)
    ELSE {IF r = Exited THEN r
          ELSE IF r.ok THEN [log |-> r.log \o <<Response_ok>>, ok |-> TRUE, val |-> <<>>]
          ELSE [log |-> r.log \o <<Response_error(r.val[1])>>, ok |-> FALSE, val |-> <<>>]
          : r \in handle_request(line.request)}

---------------------------------------------------------------------------
(* Spec: the operations, one at a time *)

\* a name of n characters
LongName(n) == [i \in 1..n |-> "a"]

ValidNames == {sda, sdb, sda1, sdb1, sdb2, luks_sda1, LongName(MaxNameLen),
               <<"s","d","U+00E9">>}

InvalidNames ==
    { <<>>,
      <<"s","d","/","a">>,
      <<".",".">>,
      <<"s","d","a",".",".","1">>,
      <<"s","d","a"," ","1">>,
      <<"s","d","a",";","r","m">>,
      <<"s","d",".","a">>,
      LongName(MaxNameLen + 1),
      [i \in 1..(MaxNameLen \div 2 + 1) |-> "U+00E9"] }

Names == ValidNames \cup InvalidNames

\* the unit suffixes in every letter case, each with its power of ten
UnitSuffixes ==
    UNION {{[s |-> <<u[1]>> \o b, e |-> u[3]], [s |-> <<u[2]>> \o b, e |-> u[3]]}
           : u \in {<<"K", "k", 3>>, <<"M", "m", 6>>, <<"G", "g", 9>>, <<"T", "t", 12>>},
             b \in {<<>>, <<"B">>, <<"b">>}}

\* whole numbers of units
Mantissas == {<<"1">>, <<"2","5">>, <<"1","0","0">>, <<"0","4","2">>}

SizeInputs ==
    { <<"1","0","0","M">>, <<"2",".","5","G">>, <<"1","T">>, <<"a","b","c">>,
      <<"5","0","0","M">>, <<"1",".","5","G">>,
      <<>>, <<" "," ">>, <<" ","4","2"," ">>, <<"5","1","2">>,
      <<"1","0","0","B">>, <<"0",".","0","0","0","4","K">>, <<"1",".","5">>,
      <<"-","1","M">>, <<"i","n","f">>, <<"n","a","n">>, <<"1","e","3">>,
      <<"1",".","2",".","3","M">>, <<"M">>, <<"1","0","0","X">>, <<"1","M","M">>,
      <<"-","i","n","f">> }
    \cup Mantissas
    \cup {m \o u.s : m \in Mantissas, u \in UnitSuffixes}

CreateSizes == { <<"5","0","0","M">>, <<>>, <<" "," ">>, <<"a","b","c">>, <<"2","G">>,
                 <<"1","0","0","M">>, <<"n","a","n">>, <<"-","1","M">>, <<"5","0","0","K">> }

ResizeSizes == { <<"5","0","0","M">>, <<"1","G">>, <<"1",".","5","G">>, <<"a","b","c">>,
                 <<"5","1","3">>, <<"i","n","f">> }

TableTypes == {W("gpt"), W("msdos")}

Init ==
    /\ phase = "idle" /\ op = "" /\ arg = <<>> /\ run = Done(TRUE)
    /\ flag = FALSE /\ chan = <<>> /\ tasks = <<>> /\ nkeys = <<0, 0>>
    /\ ui = [confirm |-> "None", selected |-> 0, progress |-> FALSE]
    /\ hin = <<>> /\ hout = <<>> /\ hcur = [id |-> 0, rest |-> <<>>] /\ halive = TRUE

\* the operation o ran on the arguments a and the environment chose the run r
Finish(o, a, r) ==
    /\ phase = "idle"
    /\ phase' = "done" /\ op' = o /\ arg' = a /\ run' = r
    /\ UNCHANGED <<guardVars, helperVars>>

Reset ==
    /\ phase = "done"
    /\ phase' = "idle" /\ op' = "" /\ arg' = <<>> /\ run' = Done(TRUE)
    /\ UNCHANGED <<guardVars, helperVars>>

Do_validate_device_name ==
    /\ phase = "idle"
    /\ \E n \in Names : Finish("validate_device_name", <<n>>, Done(validate_device_name(n)))

Do_parse_size ==
    /\ phase = "idle"
    /\ \E s \in SizeInputs :
           Finish("parse_size", <<s>>,
                  [log |-> <<>>, ok |-> parse_size(s).ok, val |-> NatToStr(parse_size(s).val)])

Do_helper_parse_size ==
    /\ phase = "idle"
    /\ \E s \in SizeInputs :
           Finish("helper_parse_size", <<s>>,
                  [log |-> <<>>, ok |-> helper_parse_size(s).ok,
                   val |-> NatToStr(helper_parse_size(s).val)])

Do_mount_partition ==
    /\ phase = "idle"
    /\ \E p \in Names : \E r \in mount_partition(p) : Finish("mount_partition", <<p>>, r)

Do_unmount_partition ==
    /\ phase = "idle"
    /\ \E p \in Names : \E r \in unmount_partition(p) : Finish("unmount_partition", <<p>>, r)

Do_format_partition ==
    /\ phase = "idle"
    /\ \E p \in Names : \E fs \in FilesystemTypes : \E r \in format_partition(p, fs) :
           Finish("format_partition", <<p, W(fs)>>, r)

Do_create_partition_table ==
    /\ phase = "idle"
    /\ \E d \in Names : \E t \in TableTypes : \E r \in create_partition_table(d, t) :
           Finish("create_partition_table", <<d, t>>, r)

Do_create_partition_with_fs ==
    /\ phase = "idle"
    /\ \E d \in Names : \E s \in CreateSizes : \E r \in create_partition_with_fs(d, s, "ext4") :
           Finish("create_partition_with_fs", <<d, s, W("ext4")>>, r)

Do_resize_partition_and_filesystem ==
    /\ phase = "idle"
    /\ \E p \in Names : \E s \in ResizeSizes :
           \E r \in resize_partition_and_filesystem(p, s) :
               Finish("resize_partition_and_filesystem", <<p, s>>, r)

Passphrase == W("secret")

\* names for the composite operations: every invalid name, a few valid ones
FewNames == InvalidNames \cup {sda1, sdb1, LongName(MaxNameLen)}
FewDisks == InvalidNames \cup {sda, sdb}

\* a whole NVMe disk: a valid name with no partition separator
nvme0n1 == <<"n","v","m","e","0","n","1">>

Do_delete_partition ==
    /\ phase = "idle"
    /\ \E p \in FewNames \cup {nvme0n1} : \E r \in delete_partition(p) :
           Finish("delete_partition", <<p>>, r)

Do_format_whole_disk ==
    /\ phase = "idle"
    /\ \E d \in FewDisks : \E r \in format_whole_disk(d, "ext4") :
           Finish("format_whole_disk", <<d, W("ext4")>>, r)

Do_unlock_luks_device ==
    /\ phase = "idle"
    /\ \E d \in Names : \E m \in {luks_sda1, <<"a","/","b">>} :
           \E r \in unlock_luks_device(d, Passphrase, m) :
               Finish("unlock_luks_device", <<d, m>>, r)

Do_lock_luks_device ==
    /\ phase = "idle"
    /\ \E m \in Names : \E r \in lock_luks_device(m) : Finish("lock_luks_device", <<m>>, r)

Do_encrypt_partition ==
    /\ phase = "idle"
    /\ \E p \in Names : \E r \in encrypt_partition(p, Passphrase) :
           Finish("encrypt_partition", <<p>>, r)

Do_encrypt_and_format_partition ==
    /\ phase = "idle"
    /\ \E p \in FewNames : \E r \in encrypt_and_format_partition(p, Passphrase, "ext4") :
           Finish("encrypt_and_format_partition", <<p, W("ext4")>>, r)

Do_create_encrypted_partition_with_fs ==
    /\ phase = "idle"
    /\ \E d \in FewDisks : \E s \in {<<"5","0","0","M">>, <<"a","b","c">>} :
           \E r \in create_encrypted_partition_with_fs(d, s, Passphrase, "ext4") :
               Finish("create_encrypted_partition_with_fs", <<d, s, W("ext4")>>, r)

\* the requests sent to the helper
HelperRequests ==
    UNION {
        {Request("mount", <<n>>), Request("unmount", <<n>>),
         Request("format", <<n, W("ext4")>>), Request("format", <<n, W("zfs")>>),
         Request("format_whole_disk", <<n, W("vfat")>>),
         Request("create_partition_table", <<n, W("mbr")>>),
         Request("create_partition_table", <<n, W("bsd")>>),
         Request("create_partition", <<n, <<"5","0","0","M">>, W("ext4")>>),
         Request("create_partition", <<n, <<>>, <<>>>>),
         Request("create_partition", <<n, <<"a","b","c">>, <<>>>>),
         Request("create_encrypted_partition",
                 <<n, <<"5","0","0","M">>, Passphrase, W("ext4")>>),
         Request("delete_partition", <<n>>),
         Request("resize_partition", <<n, <<"1","G">>>>),
         Request("unlock_luks", <<n, Passphrase, luks_sda1>>),
         Request("unlock_luks", <<sda1, Passphrase, n>>),
         Request("lock_luks", <<n>>),
         Request("encrypt_partition", <<n, Passphrase>>),
         Request("encrypt_and_format", <<n, Passphrase, W("ext4")>>)}
        : n \in FewNames \cup {sdb, luks_sda1}}

HelperLines ==
    {BlankLine, GarbageLine, RequestLine(Request("shutdown", <<>>))}
    \cup {RequestLine(q) : q \in HelperRequests}

Do_handle_request ==
    /\ phase = "idle"
    /\ \E l \in HelperLines : \E r \in main_line(l) :
           Finish("handle_request", <<W(l.kind), W(l.request.op)>> \o l.request.args, r)

Next ==
    \/ Do_validate_device_name
    \/ Do_parse_size
    \/ Do_helper_parse_size
    \/ Do_mount_partition
    \/ Do_unmount_partition
    \/ Do_format_partition
    \/ Do_format_whole_disk
    \/ Do_create_partition_table
    \/ Do_create_partition_with_fs
    \/ Do_delete_partition
    \/ Do_resize_partition_and_filesystem
    \/ Do_unlock_luks_device
    \/ Do_lock_luks_device
    \/ Do_encrypt_partition
    \/ Do_encrypt_and_format_partition
    \/ Do_create_encrypted_partition_with_fs
    \/ Do_handle_request
    \/ Reset

Spec == Init /\ [][Next]_vars

---------------------------------------------------------------------------
(* SpecSize: the size parsers and partition creation *)

Do_helper_create_partition ==
    /\ phase = "idle"
    /\ \E d \in {sdb, <<"s","d","/","a">>} : \E s \in CreateSizes :
           \E fs \in {<<>>, W("ext4")} : \E r \in helper_create_partition(d, s, fs) :
               Finish("helper_create_partition", <<d, s, fs>>, r)

NextSize ==
    \/ Do_parse_size
    \/ Do_helper_parse_size
    \/ Do_create_partition_with_fs
    \/ Do_helper_create_partition
    \/ Reset

SpecSize == Init /\ [][NextSize]_vars

\* the parted mkpart invocations of a log, and its lsblk invocations
MkpartCalls(log) ==
    {i \in DOMAIN log : /\ IsCall(log[i], "parted")
                        /\ Len(log[i].args) = 6
                        /\ log[i].args[3] = W("mkpart")}
LsblkCalls(log) == CallsOf(log, "lsblk")

\* the run is of a size parser on the input s
Parsed(s) == phase = "done" /\ op \in {"parse_size", "helper_parse_size"} /\ arg = <<s>>

\* the run returned the byte count d
Yields(d) == run.ok /\ run.val = NatToStr(d)

\* the free space of a disk as the inventory states it
FreeSpaceOf(device) ==
    saturating_sub(device.size,
                   NatSum([i \in DOMAIN device.partitions |-> device.partitions[i].size]))
UsedSpaceOf(device) ==
    NatSum([i \in DOMAIN device.partitions |-> device.partitions[i].size])

\* C9, blank size, operations.rs: a partition created with a blank size ends
\* where the disk's free space ends
C9_BlankInProcess ==
    (phase = "done" /\ op = "create_partition_with_fs" /\ trim(arg[2]) = <<>>) =>
        \A i \in MkpartCalls(run.log) :
            LET inv    == Inventory(run.log[Min(LsblkCalls(run.log))].text)
                device == inv[FindDisk(inv, arg[1])]
            IN  run.log[i].args[6] =
                    MB(NatDivPow10(NatAdd(UsedSpaceOf(device), FreeSpaceOf(device)), 6))

\* C9, blank size, the helper: the same, with the free space between the
\* start offset and the size lsblk reports
C9_BlankHelper ==
    (phase = "done" /\ op = "helper_create_partition" /\ trim(arg[2]) = <<>>) =>
        \A i \in MkpartCalls(run.log) :
            LET disk_size == StrToNat(run.log[Min(LsblkCalls(run.log))].lines[1])
            IN  run.log[i].args[6] = MB(NatDivPow10(disk_size, 6))

\* C9: both size parsers turn "100M" into 100,000,000 bytes, "2.5G" into
\* 2,500,000,000 and "1T" into 1,000,000,000,000; a whole number followed by
\* K/KB, M/MB, G/GB or T/TB in any letter case is multiplied by 10^3, 10^6,
\* 10^9 or 10^12, and without a suffix is a byte count; "abc" is an error; a
\* blank size given to partition creation is the disk's free space.
C9_SizeParsing ==
    /\ Parsed(<<"1","0","0","M">>) => Yields(Sci(<<1>>, 8))
    /\ Parsed(<<"2",".","5","G">>) => Yields(Sci(<<2,5>>, 8))
    /\ Parsed(<<"1","T">>) => Yields(Sci(<<1>>, 12))
    /\ Parsed(<<"a","b","c">>) => ~run.ok
    /\ \A m \in Mantissas :
        /\ Parsed(m) => Yields(StrToNat(m))
        /\ \A u \in UnitSuffixes : Parsed(m \o u.s) => Yields(Sci(StrToNat(m), u.e))
    /\ C9_BlankInProcess
    /\ C9_BlankHelper

\* C9 witness: parse_size has turned "2.5G" into 2,500,000,000
C9_Witness ==
    /\ Parsed(<<"2",".","5","G">>) /\ op = "parse_size"
    /\ Yields(<<2,5,0,0,0,0,0,0,0,0>>)

\* the mkfs.ext4 invocations of a log
MkfsExt4Calls(log) == CallsOf(log, "mkfs.ext4")

\* create_partition_with_fs("sdb", "500M", Ext4) ran, the inventory read
\* before the creation showed sdb with no partitions and 1 GB free, and the
\* new partition was not found to be a LUKS container
C10_Scenario ==
    /\ phase = "done" /\ op = "create_partition_with_fs"
    /\ arg = <<sdb, <<"5","0","0","M">>, W("ext4")>>
    /\ LsblkCalls(run.log) # {}
    /\ run.log[Min(LsblkCalls(run.log))].text = "empty"
    /\ \A i \in DOMAIN run.log :
          ~(IsCall(run.log[i], "cryptsetup") /\ run.log[i].res = "ok")

\* the name of the last partition of sdb in the inventory read after the
\* creation (the second lsblk of the log)
C10_NewPartition ==
    LET second == Min(LsblkCalls(run.log) \ {Min(LsblkCalls(run.log))})
        inv    == Inventory(run.log[second].text)
        device == inv[FindDisk(inv, sdb)]
    IN  device.partitions[Len(device.partitions)].name

\* C10: in that scenario there is at most one mkpart invocation and it spans
\* 0MB to 500MB, at most one mkfs.ext4 invocation, which comes after the
\* mkpart and formats the device of the last partition of sdb in the
\* inventory read after the creation; a successful run has exactly one of each.
C10_CreateThenFormat ==
    C10_Scenario =>
        /\ Cardinality(MkpartCalls(run.log)) <= 1
        /\ Cardinality(MkfsExt4Calls(run.log)) <= 1
        /\ \A i \in MkpartCalls(run.log) :
              run.log[i].args = <<W("-s"), dev_path(sdb), W("mkpart"), W("primary"),
                                 <<"0","M","B">>, <<"5","0","0","M","B">>>>
        /\ \A j \in MkfsExt4Calls(run.log) :
              /\ \E i \in MkpartCalls(run.log) : i < j /\ run.log[i].res = "ok"
              /\ Cardinality(LsblkCalls(run.log)) = 2
              /\ run.log[j].args[Len(run.log[j].args)]
                    \in {dev_path(C10_NewPartition), mapper_path(C10_NewPartition)}
        /\ run.ok => /\ Cardinality(MkpartCalls(run.log)) = 1
                     /\ Cardinality(MkfsExt4Calls(run.log)) = 1

\* C10 witness: the scenario ran to success, formatting sdb1
C10_Witness ==
    /\ C10_Scenario /\ run.ok
    /\ \E j \in MkfsExt4Calls(run.log) : run.log[j].args[Len(run.log[j].args)] = dev_path(sdb1)

---------------------------------------------------------------------------
(* SpecResize: the resize engine *)

NextResize ==
    \/ Do_resize_partition_and_filesystem
    \/ Reset

SpecResize == Init /\ [][NextResize]_vars

Resized == phase = "done" /\ op = "resize_partition_and_filesystem"

\* the invocations that resize a filesystem, and those that rewrite the table
FsResizeCalls(log) == {i \in DOMAIN log : log[i].k = "call" /\ log[i].name \in FsResizeTools}
TableWriteCalls(log) ==
    {i \in DOMAIN log : IsCall(log[i], "sfdisk") /\ log[i].args[1] = W("--force")}
TableDumpCalls(log) ==
    {i \in DOMAIN log : IsCall(log[i], "sfdisk") /\ log[i].args[1] = W("-d")}

\* the partition being resized as the inventory read by the run states it
ResizeTarget ==
    LET inv == Inventory(run.log[Min(LsblkCalls(run.log))].text)
        d   == FindDisk(inv, trim_end_numeric(arg[1]))
    IN  inv[d].partitions[FindPartition(inv[d], arg[1])]

\* the requested size in bytes
ResizeRequest == parse_size(arg[2]).val

\* the filesystems the engine resizes when shrinking, and when growing
Shrinkable == {W("ext4"), W("ntfs"), W("btrfs")}
Growable   == {W("ext4"), W("xfs"), W("ntfs"), W("btrfs")}

\* C6: when the request is smaller than the partition, every filesystem
\* resize comes strictly before the table rewrite (and there is one before any
\* rewrite of a filesystem that can shrink); when it is larger, every
\* filesystem resize comes strictly after the rewrite (and a successful run on
\* a filesystem that can grow has one); the filesystem is never resized on
\* both sides of the rewrite.
C6_ResizeOrder ==
    (Resized /\ TableWriteCalls(run.log) # {}) =>
        LET F  == FsResizeCalls(run.log)
            Wr == TableWriteCalls(run.log)
        IN  /\ Cardinality(Wr) = 1
            /\ NatLess(ResizeRequest, ResizeTarget.size) =>
                  /\ \A f \in F : \A w \in Wr : f < w
                  /\ ResizeTarget.filesystem \in Shrinkable => F # {}
            /\ NatLess(ResizeTarget.size, ResizeRequest) =>
                  /\ \A f \in F : \A w \in Wr : w < f
                  /\ (run.ok /\ ResizeTarget.filesystem \in Growable) => F # {}
            /\ ~ \E f1 \in F, f2 \in F, w \in Wr : f1 < w /\ w < f2

\* C6 witness: an ext4 partition was shrunk, resize2fs before sfdisk
C6_Witness ==
    /\ Resized /\ run.ok /\ arg = <<sda1, <<"5","0","0","M">>>>
    /\ \E f \in CallsOf(run.log, "resize2fs") : \E w \in TableWriteCalls(run.log) : f < w

\* ceil(new_bytes / 512)
CeilSectors(new_bytes) == NatDivSmall(NatAdd(new_bytes, <<5,1,1>>), 512)

\* a descriptor with the size of the target partition's line replaced
WithSize(table, target, sectors) ==
    [i \in DOMAIN table |->
        IF table[i].kind = "part" /\ table[i].dev = dev_path(target)
        THEN [table[i] EXCEPT !.size = NatToStr(sectors)]
        ELSE table[i]]

\* C7: the table fed to `sfdisk --force` is the dumped table with the size
\* field of the target partition's line replaced by ceil(new_bytes/512): the
\* same number of lines in the same order, every other line unchanged, and
\* the start field and the other attributes of the target line unchanged.
C7_TableRewrite ==
    Resized =>
        \A w \in TableWriteCalls(run.log) :
            run.log[w].res # "err" =>
                \E table \in Tables :
                    /\ run.log[Min(TableDumpCalls(run.log))].lines = RenderTable(table)
                    /\ run.log[w].lines =
                          RenderTable(WithSize(table, arg[1], CeilSectors(ResizeRequest)))

---------------------------------------------------------------------------
(* Spec: name validation and error reporting *)

\* the operations of operations.rs that take a device name as their first
\* argument
NamedOps ==
    {"mount_partition", "unmount_partition", "format_partition", "format_whole_disk",
     "create_partition_table", "create_partition_with_fs", "delete_partition",
     "resize_partition_and_filesystem", "encrypt_partition", "unlock_luks_device",
     "lock_luks_device", "encrypt_and_format_partition",
     "create_encrypted_partition_with_fs"}

\* a name the specification says is rejected: it contains '/' or "..", or a
\* character that is not alphanumeric, '-' or '_', or has more than 32
\* characters
Rejected(name) ==
    \/ contains(name, <<"/">>)
    \/ contains(name, <<".", ".">>)
    \/ \E i \in DOMAIN name : ~(is_alphanumeric(name[i]) \/ name[i] \in {"-", "_"})
    \/ Len(name) > 32

\* the run invoked no external tool and did not look at the file system
NoToolRun == \A i \in DOMAIN run.log : run.log[i].k \notin {"call", "fs"}

\* the run is of a request the helper handled
HelperRequest == phase = "done" /\ op = "handle_request" /\ arg[1] = W("request")

\* C1: an operation of the engine or a request to the helper whose device
\* name (or, for unlock, whose mapper name) is one the specification says is
\* rejected returns failure without having invoked any external tool.
C1_NameRejected ==
    /\ (phase = "done" /\ op \in NamedOps /\ Rejected(arg[1])) => (~run.ok /\ NoToolRun)
    /\ (phase = "done" /\ op = "unlock_luks_device" /\ Rejected(arg[2])) =>
          (~run.ok /\ NoToolRun)
    /\ (HelperRequest /\ Len(arg) >= 3 /\ Rejected(arg[3])) => (~run.ok /\ NoToolRun)
    /\ (HelperRequest /\ arg[2] = W("unlock_luks") /\ Rejected(arg[5])) =>
          (~run.ok /\ NoToolRun)

\* C1 witness: deleting a partition named by 33 letters was rejected
C1_Witness ==
    /\ phase = "done" /\ op = "delete_partition" /\ Len(arg[1]) = 33
    /\ ~run.ok /\ NoToolRun

\* the Error notifications of a log, and its Error response lines
ErrorNotifications(log) == {i \in DOMAIN log : IsNotification(log[i], "Error")}
ErrorResponses(log) == {i \in DOMAIN log : log[i].k = "resp" /\ log[i].name = "error"}

\* C8: every failing run of an operation of the engine has sent exactly one
\* Error notification, and every failing run of a request to the helper has
\* written exactly one Error response line.
C8_OneErrorMessage ==
    /\ (phase = "done" /\ op \in NamedOps /\ ~run.ok) =>
          Cardinality(ErrorNotifications(run.log)) = 1
    /\ (HelperRequest /\ ~run.ok) => Cardinality(ErrorResponses(run.log)) = 1

\* C8, the helper's half alone
C8_HelperOneError ==
    (HelperRequest /\ ~run.ok) =>
        /\ Cardinality(ErrorResponses(run.log)) = 1
        /\ run.log[Len(run.log)].name = "error"

---------------------------------------------------------------------------
(* SpecGuard: the key handler, the event loop and the operation tasks *)

\* the longest run of an operation task, in events sent; the number of key
\* presses, and of presses of a key that can start an operation
MaxScript == 6
MaxKeys == 3
MaxStarts == 2

\* the operations the handler spawns a task for
Destructive ==
    {"mount_partition", "unmount_partition", "format_partition", "format_whole_disk",
     "delete_partition", "create_partition_table", "create_partition_with_fs"}

IsEvent(e) == e.k = "ev"

\* the events a run sends, in order, without their levels and texts
Script(r) ==
    LET evs == SelectSeq(r.log, IsEvent)
    IN  [i \in DOMAIN evs |-> Ev(evs[i].name, "", "")]

\* what a task of each operation can send before the operation returns
TaskScripts ==
    [o \in Destructive |->
        {s \in {Script(r) :
                  r \in CASE o = "mount_partition"   -> mount_partition(sda1)
                          [] o = "unmount_partition" -> unmount_partition(sda1)
                          [] o = "format_partition"  -> format_partition(sda1, "ext4")
                          [] o = "format_whole_disk" -> format_whole_disk(sdb, "ext4")
                          [] o = "delete_partition"  -> delete_partition(sda1)
                          [] o = "create_partition_table" ->
                                create_partition_table(sdb, W("gpt"))
                          [] o = "create_partition_with_fs" ->
                                create_partition_with_fs(sdb, <<"5","0","0","M">>, "ext4")}
         : Len(s) <= MaxScript}]

Key(name) == Ev("Key", "", name)
Refresh == Ev("Refresh", "", "")

\* the keys: the mount key on a selected partition, the keys that end with
\* the confirmation dialog of an operation being shown (the delete key; Enter
\* in the format dialog or the partition dialog), and the keys of the
\* confirmation dialog
Confirmable ==
    {"format_partition", "format_whole_disk", "delete_partition",
     "create_partition_table", "create_partition_with_fs"}
Keys == {"m", "Right", "Enter", "Esc"} \cup Confirmable
Starting == {"m", "Enter"}

\* A mutant of check_operation_in_progress: no operation is ever in progress.
check_never_in_progress(in_progress) == FALSE

\* handler.rs check_operation_in_progress: the result, given the flag
check_operation_in_progress(in_progress) == in_progress

\* event.rs: a key press is put on the channel
PressKey ==
    /\ nkeys[1] < MaxKeys
    /\ \E k \in Keys :
          /\ k \in Starting => nkeys[2] < MaxStarts
          /\ chan' = Append(chan, Key(k))
          /\ nkeys' = <<nkeys[1] + 1, nkeys[2] + (IF k \in Starting THEN 1 ELSE 0)>>
    /\ UNCHANGED <<flag, tasks, ui, opsVars, helperVars>>

\* the guarded start of operation o: rejected with a warning while the flag
\* is set, else the flag is set and the task spawned
Dispatch(o, ui_after) ==
    IF check_operation_in_progress(flag)
    THEN /\ chan' = Append(Tail(chan),
                           Notification_send("Operation already in progress", "Warning"))
         /\ ui' = ui_after
         /\ UNCHANGED <<flag, tasks>>
    ELSE /\ flag' = TRUE
         /\ \E s \in TaskScripts[o] : tasks' = Append(tasks, [op |-> o, script |-> s, pc |-> 1])
         /\ chan' = Tail(chan)
         /\ ui' = ui_after

KeyAtHead(names) ==
    chan # <<>> /\ Head(chan).name = "Key" /\ Head(chan).text \in names

\* handler.rs handle_key_events: the mount key; whether the selected
\* partition is shown as mounted decides between unmount and mount
Key_mount ==
    /\ KeyAtHead({"m"}) /\ ui.confirm = "None"
    /\ \E shown_mounted \in BOOLEAN :
          Dispatch(IF shown_mounted THEN "unmount_partition" ELSE "mount_partition", ui)
    /\ UNCHANGED <<nkeys, opsVars, helperVars>>

\* handle_key_events and the dialogs before the confirmation: the
\* confirmation dialog of an operation is shown, with "No" selected
Key_confirm ==
    /\ KeyAtHead(Confirmable) /\ ui.confirm = "None"
    /\ ui' = [ui EXCEPT !.confirm = Head(chan).text, !.selected = 0]
    /\ chan' = Tail(chan)
    /\ UNCHANGED <<flag, tasks, nkeys, opsVars, helperVars>>

\* keys that start nothing: a dialog key without a dialog, another key
\* while the confirmation dialog is shown
Key_other ==
    /\ \/ KeyAtHead({"Right", "Enter", "Esc"}) /\ ui.confirm = "None"
       \/ KeyAtHead({"m"} \cup Confirmable) /\ ui.confirm # "None"
    /\ chan' = Tail(chan)
    /\ UNCHANGED <<flag, tasks, ui, nkeys, opsVars, helperVars>>

\* handle_confirmation_dialog: Left, Right, h, l
Confirm_toggle ==
    /\ KeyAtHead({"Right"}) /\ ui.confirm # "None"
    /\ ui' = [ui EXCEPT !.selected = 1 - @]
    /\ chan' = Tail(chan)
    /\ UNCHANGED <<flag, tasks, nkeys, opsVars, helperVars>>

\* handle_confirmation_dialog: Esc, and Enter on "No"
Confirm_cancel ==
    /\ \/ KeyAtHead({"Esc"}) /\ ui.confirm # "None"
       \/ KeyAtHead({"Enter"}) /\ ui.confirm # "None" /\ ui.selected # 1
    /\ ui' = [ui EXCEPT !.confirm = "None"]
    /\ chan' = Tail(chan)
    /\ UNCHANGED <<flag, tasks, nkeys, opsVars, helperVars>>

\* handle_confirmation_dialog: Enter on "Yes"
Confirm_enter ==
    /\ KeyAtHead({"Enter"}) /\ ui.confirm # "None" /\ ui.selected = 1
    /\ Dispatch(ui.confirm, [ui EXCEPT !.confirm = "None"])
    /\ UNCHANGED <<nkeys, opsVars, helperVars>>

\* main.rs: the Notification and Refresh arms (no field of the model changes)
Consume_other ==
    /\ chan # <<>> /\ Head(chan).name \in {"Notification", "Refresh"}
    /\ chan' = Tail(chan)
    /\ UNCHANGED <<flag, tasks, ui, nkeys, opsVars, helperVars>>

\* main.rs: the StartProgress arm
Consume_StartProgress ==
    /\ chan # <<>> /\ Head(chan).name = "StartProgress"
    /\ chan' = Tail(chan)
    /\ ui' = [ui EXCEPT !.progress = TRUE]
    /\ UNCHANGED <<flag, tasks, nkeys, opsVars, helperVars>>

\* main.rs: the EndProgress arm
Consume_EndProgress ==
    /\ chan # <<>> /\ Head(chan).name = "EndProgress"
    /\ chan' = Tail(chan)
    /\ ui' = [ui EXCEPT !.progress = FALSE]
    /\ flag' = FALSE
    /\ UNCHANGED <<tasks, nkeys, opsVars, helperVars>>

\* a task: the operation runs to its next event (invoking the tools that
\* come before it) and sends it
Task_send ==
    /\ \E i \in DOMAIN tasks :
          /\ tasks[i].pc <= Len(tasks[i].script)
          /\ chan' = Append(chan, tasks[i].script[tasks[i].pc])
          /\ tasks' = [tasks EXCEPT ![i].pc = @ + 1]
    /\ UNCHANGED <<flag, ui, nkeys, opsVars, helperVars>>

\* a task: the operation has returned; sender_clone.send(Event::Refresh)
Task_refresh ==
    /\ \E i \in DOMAIN tasks :
          /\ tasks[i].pc = Len(tasks[i].script) + 1
          /\ chan' = Append(chan, Refresh)
          /\ tasks' = [tasks EXCEPT ![i].pc = @ + 1]
    /\ UNCHANGED <<flag, ui, nkeys, opsVars, helperVars>>

\* A mutant of the end of a task: the flag is left as it is.
Task_exit_flag_kept ==
    /\ \E i \in DOMAIN tasks :
          /\ tasks[i].pc = Len(tasks[i].script) + 2
          /\ tasks' = [j \in 1..(Len(tasks) - 1) |-> IF j < i THEN tasks[j] ELSE tasks[j + 1]]
    /\ UNCHANGED <<flag, chan, ui, nkeys, opsVars, helperVars>>

\* a task: operation_flag.store(false), the end of the task
Task_exit ==
    /\ \E i \in DOMAIN tasks :
          /\ tasks[i].pc = Len(tasks[i].script) + 2
          /\ tasks' = [j \in 1..(Len(tasks) - 1) |-> IF j < i THEN tasks[j] ELSE tasks[j + 1]]
    /\ flag' = FALSE
    /\ UNCHANGED <<chan, ui, nkeys, opsVars, helperVars>>

NextGuard ==
    \/ PressKey
    \/ Key_mount
    \/ Key_confirm
    \/ Key_other
    \/ Confirm_toggle
    \/ Confirm_cancel
    \/ Confirm_enter
    \/ Consume_other
    \/ Consume_StartProgress
    \/ Consume_EndProgress
    \/ Task_send
    \/ Task_refresh
    \/ Task_exit

SpecGuard == Init /\ [][NextGuard]_vars

\* a task is in the middle of its operation: an event is still to be sent,
\* and where the run ends the progress, an EndProgress is still to be sent
EndsAhead(t) == {i \in DOMAIN t.script : i >= t.pc /\ t.script[i].name = "EndProgress"}
HasEnd(t) == \E i \in DOMAIN t.script : t.script[i].name = "EndProgress"
OperationRunning(t) ==
    /\ t.pc <= Len(t.script)
    /\ HasEnd(t) => EndsAhead(t) # {}
Running == {i \in DOMAIN tasks : OperationRunning(tasks[i])}

\* C2: in every reachable state at most one task of a destructive operation
\* is in the middle of its operation.
C2_OneInFlight == Cardinality(Running) <= 1

\* C4: while a task is in the middle of its operation the flag is set.
C4_FlagHeld == \A i \in Running : flag

\* the key at the head of the channel starts an operation when handled
StartKeyAtHead ==
    \/ KeyAtHead({"m"}) /\ ui.confirm = "None"
    \/ KeyAtHead({"Enter"}) /\ ui.confirm # "None" /\ ui.selected = 1
Handled == chan # <<>> /\ chan' # chan /\ Len(chan') <= Len(chan)
AlreadyInProgress == Notification_send("Operation already in progress", "Warning")

\* C3: the handler handles a key that starts an operation at once. While
\* the flag is set it sends the warning and spawns no task (no tool is
\* invoked, tasks and flag are as before); while the flag is clear it sets
\* the flag and spawns the task of the operation, at its first step. Nothing
\* but the warning is put on the channel, so the start is not queued.
C3_Step ==
    (StartKeyAtHead /\ Handled) =>
        IF flag
        THEN /\ chan' = Append(Tail(chan), AlreadyInProgress)
             /\ tasks' = tasks /\ flag'
        ELSE /\ chan' = Tail(chan)
             /\ flag'
             /\ Len(tasks') = Len(tasks) + 1
             /\ SubSeq(tasks', 1, Len(tasks)) = tasks
             /\ tasks'[Len(tasks')].pc = 1
             /\ tasks'[Len(tasks')].op \in Destructive
C3_GuardRejects ==
    /\ [](StartKeyAtHead => ENABLED (Key_mount \/ Confirm_enter))
    /\ [][C3_Step]_vars

\* a start has been rejected while the task of the first operation runs
C3_Witness ==
    /\ flag /\ Len(tasks) = 1 /\ OperationRunning(tasks[1])
    /\ \E i \in DOMAIN chan : chan[i] = AlreadyInProgress

---------------------------------------------------------------------------
(* SpecHelper: the helper process, its standard input and standard output *)

\* the number of lines the client sends
MaxRequests == 2

EofLine == [kind |-> "eof", request |-> Request("", <<>>)]

\* the lines the client sends: requests on a partition, on a name that is
\* rejected, blank lines, lines that are no request, shutdown
PipelinedLines ==
    {l \in HelperLines :
        l.kind = "request" /\ l.request.op # "shutdown" =>
            \E i \in DOMAIN l.request.args : l.request.args[i] \in {sda1, <<".", ".">>}}

IsResponse(e) == e.k = "resp"

\* the client writes a line to the helper's standard input, or closes it
Client_send ==
    /\ Len(hin) < MaxRequests
    /\ hin # <<>> => hin[Len(hin)].kind # "eof"
    /\ \E l \in PipelinedLines \cup {EofLine} : hin' = Append(hin, l)
    /\ UNCHANGED <<hout, hcur, halive, opsVars, guardVars>>

\* main: the loop takes the next line of standard input and handles it; the
\* loop ends at the end of input, and shutdown ends the process
Helper_read ==
    /\ halive /\ hcur.rest = <<>> /\ hcur.id < Len(hin)
    /\ LET line == hin[hcur.id + 1]
       IN  IF line.kind = "eof"
           THEN halive' = FALSE /\ hcur' = [id |-> hcur.id + 1, rest |-> <<>>]
           ELSE \E r \in main_line(line) :
                   /\ halive' = (r # Exited)
                   /\ hcur' = [id |-> hcur.id + 1, rest |-> SelectSeq(r.log, IsResponse)]
    /\ UNCHANGED <<hin, hout, opsVars, guardVars>>

\* ResponseWriter::send: the next line of the request being handled is
\* written to standard output and flushed
Helper_write ==
    /\ halive /\ hcur.rest # <<>>
    /\ hout' = Append(hout, [id |-> hcur.id, line |-> Head(hcur.rest)])
    /\ hcur' = [hcur EXCEPT !.rest = Tail(@)]
    /\ UNCHANGED <<hin, halive, opsVars, guardVars>>

NextHelper ==
    \/ Client_send
    \/ Helper_read
    \/ Helper_write

SpecHelper == Init /\ [][NextHelper]_vars

Terminal(e) == e.name \in {"ok", "error"}
HandledRequest(id) == hin[id].kind = "request" /\ hin[id].request.op # "shutdown"
Complete(id) == id < hcur.id \/ (id = hcur.id /\ hcur.rest = <<>>)
LinesOf(id) == {i \in DOMAIN hout : hout[i].id = id}
TerminalsOf(id) == {i \in LinesOf(id) : Terminal(hout[i].line)}

\* C5: a handled request that the helper is done with has exactly one
\* terminal line (ok or error); every other line of a handled request is
\* written before its terminal line; and the lines of standard output are in
\* the order of their requests.
C5_OneTerminalLast ==
    /\ \A id \in 1..hcur.id :
          (HandledRequest(id) /\ Complete(id)) => Cardinality(TerminalsOf(id)) = 1
    /\ \A id \in 1..hcur.id : \A i \in TerminalsOf(id) :
          HandledRequest(id) => \A j \in LinesOf(id) : j <= i
    /\ \A i, j \in DOMAIN hout : i < j => hout[i].id <= hout[j].id

\* two handled requests are done with, the first with a line before its
\* terminal line
C5_Witness ==
    /\ hcur = [id |-> 2, rest |-> <<>>]
    /\ HandledRequest(1) /\ HandledRequest(2)
    /\ Cardinality(LinesOf(1)) >= 2 /\ Cardinality(LinesOf(2)) >= 2

---------------------------------------------------------------------------
(* Spec: the lazy-unmount fallback *)

UnmountRun ==
    /\ phase = "done"
    /\ \/ op = "unmount_partition"
       \/ op = "handle_request" /\ arg[1] = W("request") /\ arg[2] = W("unmount")

\* the umount invocations of the run: the plain one, the lazy ones
PlainUmounts == {i \in DOMAIN run.log :
                    IsCall(run.log[i], "umount") /\ Len(run.log[i].args) = 1}
LazyUmounts == {i \in DOMAIN run.log :
                    IsCall(run.log[i], "umount") /\ run.log[i].args[1] = W("-l")}

\* the plain umount was still running after five seconds, or failed with a
\* busy target
UmountBlocked(e) == e.res \in {"timeout", "late"}
UmountBusy(e) == e.res = "fail" /\ e.lines # <<>>
FallbackCase ==
    \E i \in PlainUmounts : UmountBlocked(run.log[i]) \/ UmountBusy(run.log[i])

\* what the run told the user
Told(level, text) ==
    \E i \in DOMAIN run.log :
        \/ IsNotification(run.log[i], level) /\ run.log[i].text = text
        \/ run.log[i].k = "resp" /\ run.log[i].name = "notification"
           /\ run.log[i].tag = level /\ run.log[i].text = text
StillInUse == Told("Info", "Lazy unmounted") \/ Told("warning", "Lazy unmount initiated")
PlainSuccess == Told("Info", "Unmounted") \/ Told("info", "Unmounted")
ErrorTold ==
    \E i \in DOMAIN run.log :
        IsNotification(run.log[i], "Error") \/ (run.log[i].k = "resp" /\ run.log[i].name = "error")

\* the fallback as the claim states it, for one run
LazyFallback ==
    /\ Cardinality(LazyUmounts) = 1
    /\ \A i \in LazyUmounts :
          /\ run.log[i].res = "ok" => (run.ok /\ StillInUse /\ ~PlainSuccess)
          /\ run.log[i].res = "fail" => (~run.ok /\ ErrorTold)

\* C11: an unmount whose umount invocation blocks for more than five
\* seconds, or fails with a busy target, makes exactly one lazy umount
\* invocation; when that exits with status 0 the run reports the still-in-use
\* notification and not the plain success, and when it exits with another
\* status the run reports an error and fails.
C11_LazyFallback == (UnmountRun /\ FallbackCase) => LazyFallback

\* C11 for the engine alone
C11_InProcess == (UnmountRun /\ op = "unmount_partition" /\ FallbackCase) => LazyFallback

\* C11 for the helper when umount fails with a busy target
C11_HelperBusy ==
    (UnmountRun /\ op = "handle_request"
     /\ \E i \in PlainUmounts : UmountBusy(run.log[i])) => LazyFallback

---------------------------------------------------------------------------
(* SpecFormat: format_partition in the engine and in the helper *)

Do_helper_format_partition ==
    /\ phase = "idle"
    /\ \E p \in {sda1, sdb1, luks_sda1, <<"s","d","/","a">>} :
         \E fs \in HelperFilesystemTypes \cup {"zfs"} :
           \E r \in helper_format_partition(p, fs) :
               Finish("helper_format_partition", <<p, W(fs)>>, r)

NextFormat ==
    \/ Do_format_partition
    \/ Do_helper_format_partition
    \/ Reset

SpecFormat == Init /\ [][NextFormat]_vars

\* The system in which sda1 and sdb1 are LUKS containers, unlocked as
\* luks-sda1 and cryptroot: the second registry, with /dev/mapper holding
\* exactly its three entries.
UnlockedRegistry ==
    <<[mapper |-> control, device |-> <<>>, res |-> "fail"],
      [mapper |-> cryptroot, device |-> dev_path(sdb1), res |-> "ok"],
      [mapper |-> luks_sda1, device |-> dev_path(sda1), res |-> "ok"]>>
UnlockedAs(partition) == IF partition = sda1 THEN luks_sda1 ELSE cryptroot
MapperFiles == {mapper_path(UnlockedRegistry[i].mapper) : i \in DOMAIN UnlockedRegistry}

\* an effect reads that system as it is
ReadsUnlocked(e) ==
    /\ (e.k = "fs" /\ e.name = "exists" /\ starts_with(e.args[1], MapperPrefix)) =>
          (e.res = "yes" <=> e.args[1] \in MapperFiles)
    /\ (e.k = "fs" /\ e.name = "exists" /\ e.args[1] \in {dev_path(sda1), dev_path(sdb1)}) =>
          e.res = "yes"
    /\ (e.k = "fs" /\ e.name = "read_dir") => e.res = "yes"
    /\ (IsCall(e, "cryptsetup") /\ e.args[1] = W("isLuks")) => e.res = "ok"
    /\ (IsCall(e, "cryptsetup") /\ e.args[1] = W("status")) =>
          \E i \in DOMAIN UnlockedRegistry :
              /\ e.args[2] = UnlockedRegistry[i].mapper
              /\ e.res = UnlockedRegistry[i].res
              /\ e.lines = <<UnlockedRegistry[i].device>>
FormatOfUnlocked ==
    /\ phase = "done" /\ op \in {"format_partition", "helper_format_partition"}
    /\ arg[1] \in {sda1, sdb1}
    /\ \A i \in DOMAIN run.log : ReadsUnlocked(run.log[i])

\* the invocations of a filesystem maker
MkfsTools == {mkfs_cmd(fs) : fs \in FilesystemTypes}
             \cup {helper_mkfs_cmd(fs) : fs \in HelperFilesystemTypes}
MkfsCalls == {i \in DOMAIN run.log : run.log[i].k = "call" /\ run.log[i].name \in MkfsTools}
OnMapperOnly(i) ==
    LET a == run.log[i].args
    IN  /\ a[Len(a)] = mapper_path(UnlockedAs(arg[1]))
        /\ \A j \in DOMAIN a : a[j] # dev_path(arg[1])

\* C12: formatting a partition that is an unlocked LUKS container invokes
\* the filesystem maker on the path of its mapping under /dev/mapper and
\* never on the path of the partition, whatever the filesystem type.
C12_FormatsMapper == FormatOfUnlocked => \A i \in MkfsCalls : OnMapperOnly(i)

\* C12 for the engine alone
C12_InProcess ==
    (FormatOfUnlocked /\ op = "format_partition") => \A i \in MkfsCalls : OnMapperOnly(i)

\* the engine has formatted the mapping of sdb1 as NTFS
C12_InProcessWitness ==
    /\ FormatOfUnlocked /\ op = "format_partition" /\ arg = <<sdb1, W("ntfs")>>
    /\ run.ok /\ MkfsCalls # {}

---------------------------------------------------------------------------
(* SpecLuks: get_luks_status over the registries of /dev/mapper *)

\* the number of entries of /dev/mapper
MaxEntries == 3

\* entries of /dev/mapper: the control node (here reporting a device, which
\* the code must not look at), two mappings of sdb1, a mapping of sda1, a
\* mapping whose status query fails, and a mapping of a logical volume that
\* is named sdb1
vg0_sdb1 == MapperPrefix \o <<"v","g","0","-">> \o sdb1
StatusEntries ==
    {[mapper |-> control, device |-> dev_path(sdb1), res |-> "ok"],
     [mapper |-> cryptroot, device |-> dev_path(sdb1), res |-> "ok"],
     [mapper |-> <<"b","a","k">>, device |-> dev_path(sdb1), res |-> "ok"],
     [mapper |-> luks_sda1, device |-> dev_path(sda1), res |-> "ok"],
     [mapper |-> <<"o","f","f">>, device |-> dev_path(sdb1), res |-> "fail"],
     [mapper |-> <<"l","v">>, device |-> vg0_sdb1, res |-> "ok"]}

\* the listings of /dev/mapper: no name twice
StatusRegistries ==
    UNION {{reg \in [1..n -> StatusEntries] :
               \A i, j \in 1..n : reg[i] = reg[j] => i = j}
           : n \in 0..MaxEntries}

Do_get_luks_status ==
    /\ phase = "idle"
    /\ \E d \in {sda1, sdb1} : \E reg \in StatusRegistries :
           Finish("get_luks_status", <<d, reg>>, luks_status_of(reg, d))

NextLuks ==
    \/ Do_get_luks_status
    \/ Reset

SpecLuks == Init /\ [][NextLuks]_vars

StatusRun == phase = "done" /\ op = "get_luks_status"

\* the entries that report the partition as their backing device
BackedBy(reg, device) ==
    {i \in DOMAIN reg : /\ reg[i].mapper # control
                        /\ reg[i].res = "ok"
                        /\ reg[i].device = dev_path(device)}

C13_PlainDevices ==
    (StatusRun /\ \A i \in DOMAIN arg[2] : arg[2][i].device # vg0_sdb1) =>
        LET hits == BackedBy(arg[2], arg[1])
        IN  /\ hits = {} => (~run.ok /\ run.val = <<>>)
            /\ hits # {} => (run.ok /\ run.val = arg[2][Min(hits)].mapper)
            /\ run.val # control

---------------------------------------------------------------------------
(* SpecHelper: lines that are no request, and shutdown *)

Malformed(id) == hin[id].kind = "garbage"
EndsInput(id) ==
    \/ hin[id].kind = "eof"
    \/ hin[id].kind = "request" /\ hin[id].request.op = "shutdown"

Shutdown(id) == hin[id].kind = "request" /\ hin[id].request.op = "shutdown"

\* C15: once a shutdown request is read the process has ended: no line is
\* written for the request, and no later line of input is read or answered.
C15_ShutdownSilent ==
    \A id \in 1..hcur.id : Shutdown(id) =>
        /\ ~halive
        /\ hcur = [id |-> id, rest |-> <<>>]
        /\ \A i \in DOMAIN hout : hout[i].id < id

\* shutdown has been read while a request was waiting behind it
C15_Witness ==
    /\ Len(hin) = 2 /\ Shutdown(1) /\ HandledRequest(2)
    /\ hcur.id = 1 /\ ~halive

---------------------------------------------------------------------------
(* SpecResize: the helper's resize against the engine's *)

\* the invocations that change the system: not the probes, not the reads of
\* the inventory and of the partition table, not the tool lookups
StateChanging(e) ==
    /\ e.k = "call" /\ ~IsProbe(e)
    /\ e.name \notin {"lsblk", "which"}
    /\ ~(e.name = "sfdisk" /\ e.args[1] = W("-d"))
ToolSequence(log) == SelectSeq(log, StateChanging)

\* the runs of the helper on the resize request with the same parameters
HelperResizeRuns ==
    main_line(RequestLine(Request("resize_partition", <<arg[1], arg[2]>>)))

\* C16, for the resize operation: whatever the engine's resize does on a
\* system, the helper's resize with the same parameters has a run with the
\* same outcome (Ok or Error) and the same sequence of state-changing tool
\* invocations.
C16_SameDispatcher ==
    Resized =>
        \E h \in HelperResizeRuns :
            /\ h.ok = run.ok
            /\ ToolSequence(h.log) = ToolSequence(run.log)

---------------------------------------------------------------------------
(* Spec: the names the validator accepts *)

\* the characters [A-Za-z0-9_-]
NameCharacters == AsciiLetters \cup Digits \cup {"_", "-"}

\* non-empty, at most 32 characters, every character in [A-Za-z0-9_-]
PlainName(name) ==
    /\ name # <<>>
    /\ Len(name) <= 32
    /\ \A i \in DOMAIN name : name[i] \in NameCharacters

Validated == phase = "done" /\ op = "validate_device_name"

\* C17: validate_device_name accepts a string if and only if it is
\* non-empty, at most 32 characters long and made of [A-Za-z0-9_-] only; every
\* other string, one with a letter or digit outside ASCII included, is
\* rejected.
C17_AcceptsExactly == Validated => (run.ok <=> PlainName(arg[1]))

\* C17 over names of ASCII characters: the validator accepts exactly the
\* plain names.
C17_AsciiNames ==
    (Validated /\ \A i \in DOMAIN arg[1] : arg[1][i] \notin NonAsciiLetters) =>
        (run.ok <=> PlainName(arg[1]))

---------------------------------------------------------------------------
(* SpecInventory: the Partition records of list_block_devices *)

\* Option<T>
None == [some |-> FALSE, v |-> <<>>]
Some(x) == [some |-> TRUE, v |-> x]

\* the children of one device of the lsblk listing
MaxChildren == 2

\* outputs of `cryptsetup luksDump`, each line split at white space
LuksDumps ==
    { <<>>,
      << <<W("Version:"), <<"1">>>>, <<W("UUID:"), W("u-1")>> >>,
      << <<W("Version:")>>, <<W("Cipher:"), W("aes")>> >> }

\* the last line of the kind gives the field: split_whitespace().nth(1)
LastLine(lines, key) ==
    LET at == {i \in DOMAIN lines : lines[i][1] = W(key)}
    IN  IF at = {} THEN <<>> ELSE lines[CHOOSE i \in at : \A j \in at : j <= i]
luks_version(lines) ==
    LET l == LastLine(lines, "Version:")
    IN  IF l = <<>> THEN W("LUKS") \o <<"2">>
        ELSE W("LUKS") \o (IF Len(l) >= 2 THEN l[2] ELSE <<"2">>)
luks_uuid(lines) ==
    LET l == LastLine(lines, "UUID:")
    IN  IF l = <<>> \/ Len(l) < 2 THEN <<>> ELSE l[2]

\* get_luks_info: val is the LuksInfo (version and uuid)
get_luks_info(device) ==
    {[log |-> <<Call("cryptsetup", <<W("luksDump"), dev_path(device)>>, res)>>,
      ok |-> FALSE, val |-> <<>>] : res \in {"fail", "err"}}
    \cup {[log |-> <<CallOut("cryptsetup", <<W("luksDump"), dev_path(device)>>, "ok", d)>>,
           ok |-> TRUE,
           val |-> [version |-> luks_version(d), uuid |-> luks_uuid(d)]] : d \in LuksDumps}

\* outputs of `findmnt -n -o TARGET`
FindmntOutputs == {<<>>, <<" ">>, <<"/","m","n","t"," ">>}

\* get_mapper_mount_point: val is the Option<String>
get_mapper_mount_point(mapper_name, fallback) ==
    LET args == <<W("-n"), W("-o"), W("TARGET"), mapper_path(mapper_name)>>
    IN  {[log |-> <<Call("findmnt", args, res)>>, ok |-> TRUE, val |-> fallback]
            : res \in {"fail", "err"}}
        \cup {[log |-> <<CallOut("findmnt", args, "ok", <<out>>)>>, ok |-> TRUE,
               val |-> IF trim(out) # <<>> THEN Some(trim(out)) ELSE fallback]
                : out \in FindmntOutputs}

\* outputs of `df -B1`, each line split at white space
DfHeader == <<W("Filesystem"), W("1B-blocks"), W("Used"), W("Available")>>
DfOutputs ==
    { <<>>,
      <<DfHeader>>,
      <<DfHeader, <<W("/dev/sdb1"), <<"9","0">>, <<"4","0">>, <<"5","0">>, W("/mnt")>> >>,
      <<DfHeader, <<W("/dev/sdb1"), <<"9","0">>, <<"4","0">>>> >>,
      <<DfHeader, <<W("tmpfs"), <<"-">>, <<"-">>, <<"-">>, W("/run")>> >> }

\* str::parse::<u64> of a token of the outputs above
IsU64(tok) == tok # <<>> /\ AllDigits(tok)

\* get_filesystem_usage: val is the Option<(u64, u64)>
get_filesystem_usage(mount_point) ==
    {[log |-> <<Call("df", <<W("-B1"), mount_point>>, res)>>, ok |-> TRUE, val |-> None]
        : res \in {"fail", "err"}}
    \cup {[log |-> <<CallOut("df", <<W("-B1"), mount_point>>, "ok", out)>>, ok |-> TRUE,
           val |-> IF Len(out) < 2 THEN None
                   ELSE IF Len(out[2]) < 4 THEN None
                   ELSE IF ~IsU64(out[2][3]) \/ ~IsU64(out[2][4]) THEN None
                   ELSE Some(<<out[2][3], out[2][4]>>)]
            : out \in DfOutputs}

\* A mutant of luks_fields: the mapping is looked up whether or not the
\* device is a LUKS container.
luks_fields_status_always(name, is_encrypted) ==
    {[log |-> (IF is_encrypted THEN i.log ELSE <<>>) \o s.log,
      encryption_type |-> IF is_encrypted /\ i.ok THEN Some(i.val.version) ELSE None,
      luks_uuid |-> IF is_encrypted /\ i.ok THEN Some(i.val.uuid) ELSE None,
      mapper_device |-> IF s.val # <<>> THEN Some(s.val) ELSE None]
        : i \in IF is_encrypted THEN get_luks_info(name) ELSE {Done(FALSE)},
          s \in get_luks_status(name)}

\* the three LUKS fields of a record, with the effects of reading them
luks_fields(name, is_encrypted) ==
    IF is_encrypted
    THEN {[log |-> i.log \o s.log,
           encryption_type |-> IF i.ok THEN Some(i.val.version) ELSE None,
           luks_uuid |-> IF i.ok THEN Some(i.val.uuid) ELSE None,
           mapper_device |-> IF s.val # <<>> THEN Some(s.val) ELSE None]
            : i \in get_luks_info(name), s \in get_luks_status(name)}
    ELSE {[log |-> <<>>, encryption_type |-> None, luks_uuid |-> None,
           mapper_device |-> None]}

\* the Partition record of one entry of the listing (a child of a disk, or a
\* disk that carries a filesystem itself): the runs, val the record
partition_record(part) ==
    UNION {
      LET is_encrypted == (res = "ok")
      IN  UNION {
            LET mounts == IF f.mapper_device.some
                          THEN get_mapper_mount_point(f.mapper_device.v, part.mountpoint)
                          ELSE {DoneVal(part.mountpoint)}
            IN  UNION {
                  LET usages == IF m.val.some THEN get_filesystem_usage(m.val.v)
                                ELSE {DoneVal(None)}
                  IN  {[log |-> <<is_luks_device(part.name, res)>> \o f.log \o m.log \o u.log,
                        ok |-> TRUE,
                        val |-> [name |-> part.name,
                                 size |-> part.size,
                                 filesystem |-> part.fstype,
                                 mount_point |-> m.val,
                                 is_mounted |-> m.val.some,
                                 label |-> part.label,
                                 used_bytes |-> IF u.val.some THEN Some(u.val.v[1]) ELSE None,
                                 available_bytes |-> IF u.val.some THEN Some(u.val.v[2])
                                                     ELSE None,
                                 is_encrypted |-> is_encrypted,
                                 encryption_type |-> f.encryption_type,
                                 luks_uuid |-> f.luks_uuid,
                                 mapper_device |-> f.mapper_device]] : u \in usages}
                  : m \in mounts}
            : f \in luks_fields(part.name, is_encrypted)}
      : res \in ToolRes}

\* the records of the children of a disk, in order
RECURSIVE children_records(_)
children_records(children) ==
    IF children = <<>> THEN {DoneVal(<<>>)}
    ELSE {[log |-> p.log \o r.log, ok |-> TRUE, val |-> <<p.val>> \o r.val]
            : p \in partition_record(Head(children)),
              r \in children_records(Tail(children))}

\* the body of the loop of list_block_devices for one device of the listing:
\* val is the partitions of the BlockDevice, ok whether one is pushed
device_partitions(device) ==
    IF device.type # "disk" THEN {[log |-> <<>>, ok |-> FALSE, val |-> <<>>]}
    ELSE IF device.children.some THEN children_records(device.children.v)
    ELSE IF device.fstype.some \/ device.mountpoint.some
         THEN {[r EXCEPT !.val = <<@>>] : r \in partition_record(device)}
         ELSE {DoneVal(<<>>)}

\* entries of the lsblk listing
LsblkEntry(name, type, fstype, mountpoint, children) ==
    [name |-> name, type |-> type, size |-> <<"9","0">>, fstype |-> fstype,
     mountpoint |-> mountpoint, label |-> None, children |-> children]
LsblkChildren ==
    { LsblkEntry(sdb1, "part", Some(W("crypto_LUKS")), None, None),
      LsblkEntry(sdb1, "part", Some(W("ext4")), Some(W("/home")), None),
      LsblkEntry(sdb2, "part", None, None, None) }
LsblkDevices ==
    { LsblkEntry(sdb, "disk", None, None, Some(c)) :
        c \in UNION {[1..n -> LsblkChildren] : n \in 0..MaxChildren} }
    \cup { LsblkEntry(sda, "disk", Some(W("crypto_LUKS")), None, None),
           LsblkEntry(sda, "disk", None, Some(W("/data")), None),
           LsblkEntry(sda, "disk", None, None, None),
           LsblkEntry(<<"l","o","o","p","0">>, "loop", Some(W("squashfs")), None, None) }

Do_device_partitions ==
    /\ phase = "idle"
    /\ \E device \in LsblkDevices : \E r \in device_partitions(device) :
           Finish("list_block_devices", <<device>>, r)

NextInventory ==
    \/ Do_device_partitions
    \/ Reset

SpecInventory == Init /\ [][NextInventory]_vars

Listed == phase = "done" /\ op = "list_block_devices"

\* C18: every Partition record of an inventory read that names a mapper
\* device is marked encrypted, whatever the encryption test, the header dump
\* and the mapper-status queries returned, their failures included.
C18_MapperImpliesEncrypted ==
    Listed => \A i \in DOMAIN run.val :
                  run.val[i].mapper_device.some => run.val[i].is_encrypted

\* C18 witness: a record with a mapper device, built although the header
\* dump failed
C18_Witness ==
    /\ Listed
    /\ \E i \in DOMAIN run.val :
          /\ run.val[i].mapper_device = Some(cryptroot)
          /\ run.val[i].is_encrypted
          /\ run.val[i].luks_uuid = None
    /\ \E i \in DOMAIN run.log :
          /\ IsCall(run.log[i], "cryptsetup")
          /\ run.log[i].args[1] = W("luksDump")
          /\ run.log[i].res = "fail"

---------------------------------------------------------------------------
(* SpecResize: the preconditions of a resize *)

\* the effects of the run before it announced progress
BeforeProgress(i) ==
    \A j \in 1..i : ~(run.log[j].k = "ev" /\ run.log[j].name = "StartProgress")

\* cryptsetup isLuks reported the partition as a LUKS container
EncryptedTarget ==
    \E i \in DOMAIN run.log :
        /\ IsCall(run.log[i], "cryptsetup") /\ run.log[i].args[1] = W("isLuks")
        /\ run.log[i].res = "ok"

\* findmnt reported the partition as mounted when the operation asked
MountedTarget ==
    \E i \in DOMAIN run.log :
        /\ IsCall(run.log[i], "findmnt") /\ run.log[i].res = "ok" /\ BeforeProgress(i)

\* no filesystem-resize tool, table dump or table writer was invoked
NothingResized ==
    /\ FsResizeCalls(run.log) = {}
    /\ TableDumpCalls(run.log) = {}
    /\ TableWriteCalls(run.log) = {}

\* C19: the resize of an encrypted partition and the resize of a mounted
\* partition return failure with an Error notification and invoke no
\* filesystem-resize tool, no table dump and no table writer; for an
\* encrypted partition the encryption test is the only invocation made.
C19_ResizeRejected ==
    /\ (Resized /\ (EncryptedTarget \/ MountedTarget)) =>
          /\ ~run.ok
          /\ ErrorNotifications(run.log) # {}
          /\ NothingResized
    /\ (Resized /\ EncryptedTarget) => Cardinality(Calls(run.log)) = 1

\* C19 witness: the resize of a mounted, unencrypted partition was rejected
C19_Witness ==
    /\ Resized /\ MountedTarget /\ ~EncryptedTarget
    /\ ~run.ok /\ ErrorNotifications(run.log) # {} /\ NothingResized

\* the resize of an encrypted partition was rejected
C19_EncryptedWitness ==
    /\ Resized /\ EncryptedTarget
    /\ ~run.ok /\ ErrorNotifications(run.log) # {} /\ Cardinality(Calls(run.log)) = 1

---------------------------------------------------------------------------
(* SpecResize: a dumped table without the target partition *)

\* the dump the run read, and the two names of the target in it
DumpLines == run.log[Min(TableDumpCalls(run.log))].lines
TargetDevs ==
    LET name == split_partition_name(arg[1])
    IN  {dev_path(name.disk) \o name.part_num,
         dev_path(name.disk) \o <<"p">> \o name.part_num}

\* the device field of a line of the dump
DeviceField(line) == trim(split(line, {":", ","})[1])

Dumped ==
    /\ Resized
    /\ TableDumpCalls(run.log) # {}
    /\ run.log[Min(TableDumpCalls(run.log))].res = "ok"

\* no line of the dump has the target as its device field
TargetAbsent == \A i \in DOMAIN DumpLines : DeviceField(DumpLines[i]) \notin TargetDevs

\* no line of the dump contains a name of the target at all
TargetUnmentioned ==
    \A i \in DOMAIN DumpLines : \A d \in TargetDevs : ~contains(DumpLines[i], d)

\* C20: when no line of the dumped table has a device field equal to the
\* target partition, in the plain or in the p-infixed naming, the resize
\* fails and the table writer is never invoked, also when another line
\* contains the target's path as a prefix (sda1 absent, sda10 present).
C20_AbsentTargetFails ==
    (Dumped /\ TargetAbsent) => (~run.ok /\ TableWriteCalls(run.log) = {})

\* C20 for dumps in which no line contains a name of the target
C20_UnmentionedTargetFails ==
    (Dumped /\ TargetUnmentioned) =>
        /\ ~run.ok
        /\ TableWriteCalls(run.log) = {}
        /\ ErrorNotifications(run.log) # {}

\* the resize of sda1 read a dump that lists sda2 alone and failed
C20_UnmentionedWitness ==
    /\ Dumped /\ TargetUnmentioned /\ arg[1] = sda1
    /\ ~run.ok /\ TableWriteCalls(run.log) = {}

---------------------------------------------------------------------------
(* SpecResize: a shrink that fails before the table rewrite *)

\* the run read the inventory and found the target partition in it
TargetListed ==
    /\ Resized
    /\ \E i \in LsblkCalls(run.log) : run.log[i].res = "ok"
    /\ LET inv == Inventory(run.log[Min(LsblkCalls(run.log))].text)
           d   == FindDisk(inv, trim_end_numeric(arg[1]))
       IN  d # 0 /\ FindPartition(inv[d], arg[1]) # 0

\* the request is smaller than the partition
ShrinkRequest == TargetListed /\ NatLess(ResizeRequest, ResizeTarget.size)

\* the request does not grow the partition: the filesystem is resized first
NotGrowing == TargetListed /\ ~NatLess(ResizeTarget.size, ResizeRequest)

\* an invocation made for the filesystem resize that did not exit with status 0
ShrinkStepTools == FsResizeTools \cup {"mkdir", "mount"}
FailedShrinkStep ==
    \/ ResizeTarget.filesystem = W("xfs")
    \/ \E i \in DOMAIN run.log :
          /\ run.log[i].k = "call" /\ run.log[i].name \in ShrinkStepTools
          /\ run.log[i].res # "ok"

\* C21: a shrink request on an XFS partition returns failure and neither
\* a filesystem tool, the table dump nor the table writer is invoked; and whenever the
\* filesystem resize that precedes the rewrite fails, the table writer is not
\* invoked and the operation returns failure.
C21_ShrinkFailureStops ==
    /\ (ShrinkRequest /\ ResizeTarget.filesystem = W("xfs")) =>
          /\ ~run.ok
          /\ TableDumpCalls(run.log) = {}
          /\ TableWriteCalls(run.log) = {}
          /\ FsResizeCalls(run.log) = {}
    /\ (NotGrowing /\ FailedShrinkStep) =>
          (~run.ok /\ TableWriteCalls(run.log) = {})

\* C21 witness: a request of 513 bytes on the XFS partition sdb1 was refused
C21_Witness ==
    /\ ShrinkRequest /\ ResizeTarget.filesystem = W("xfs")
    /\ arg = <<sdb1, <<"5","1","3">>>>
    /\ ~run.ok /\ TableDumpCalls(run.log) = {}
    /\ \E i \in ErrorNotifications(run.log) :
          run.log[i].text = "XFS does not support shrinking"

\* a failed shrink of an NTFS partition stopped the resize
C21_NtfsWitness ==
    /\ ShrinkRequest /\ ResizeTarget.filesystem = W("ntfs")
    /\ \E i \in CallsOf(run.log, "ntfsresize") : run.log[i].res = "fail"
    /\ ~run.ok /\ TableWriteCalls(run.log) = {}

---------------------------------------------------------------------------
(* SpecResize: the temporary mount of the XFS and Btrfs resize *)

\* the mounts on the temporary directory of the resize
TmpMounts ==
    {i \in DOMAIN run.log :
        /\ IsCall(run.log[i], "mount")
        /\ run.log[i].args = <<dev_path(arg[1]), resize_tmp(arg[1])>>}

IsTmpCall(i, prog) ==
    /\ i \in DOMAIN run.log
    /\ IsCall(run.log[i], prog)
    /\ run.log[i].args = <<resize_tmp(arg[1])>>

C22_MountFailedWitness ==
    /\ Resized /\ ~run.ok
    /\ \E i \in TmpMounts : run.log[i].res = "fail" /\ IsTmpCall(i + 1, "rmdir")
    /\ CallsOf(run.log, "btrfs") = {}

---------------------------------------------------------------------------
(* SpecFormat: the conditions under which nothing is formatted *)

\* What the format operations can find out about the system: whether the
\* effective target is mounted, whether the partition is plain, a locked
\* LUKS container or an unlocked one, whether `which` finds the maker tool.
FormatSystems ==
    [mounted : BOOLEAN, luks : {"plain", "locked", "unlocked"}, installed : BOOLEAN]

\* `cryptsetup status` named the partition as the device of a mapping
StatusNames(e) ==
    /\ IsCall(e, "cryptsetup") /\ e.args[1] = W("status")
    /\ e.res = "ok" /\ ends_with(e.lines[1], arg[1])

\* an effect of the run reads the system sys as it is
ReadsSystem(e, sys) ==
    /\ IsCall(e, "findmnt") => (e.res = "ok" <=> sys.mounted)
    /\ IsCall(e, "which") => (e.res = "ok" <=> sys.installed)
    /\ (IsCall(e, "cryptsetup") /\ e.args[1] = W("isLuks")) =>
          (e.res = "ok" <=> sys.luks # "plain")
    /\ StatusNames(e) => sys.luks = "unlocked"

\* a format of a partition with a valid name ran on the system sys
FormatOn(sys) ==
    /\ phase = "done" /\ op \in {"format_partition", "helper_format_partition"}
    /\ arg[1] \in {sda1, sdb1}
    /\ \A i \in DOMAIN run.log : ReadsSystem(run.log[i], sys)
    /\ (sys.luks = "unlocked" /\ CallsOf(run.log, "cryptsetup") # {}) =>
          \E i \in DOMAIN run.log : StatusNames(run.log[i])

\* the cases in which nothing may be formatted
Unformattable(sys) == sys.mounted \/ sys.luks = "locked" \/ ~sys.installed

\* the run tells of the missing tool in words of its own
InstallMessage ==
    \/ \E i \in ErrorNotifications(run.log) :
          run.log[i].text = "Formatting tool not found. Install the required package."
    \/ run.val = W("not found. Install the appropriate package.")

C23_InProcess ==
    \A sys \in FormatSystems :
        (FormatOn(sys) /\ op = "format_partition" /\ Unformattable(sys)) =>
            /\ MkfsCalls = {}
            /\ ~run.ok
            /\ CallsOf(run.log, "which") # {} => InstallMessage

\* the engine refused to format a mounted partition
C23_InProcessWitness ==
    /\ FormatOn([mounted |-> TRUE, luks |-> "plain", installed |-> TRUE])
    /\ op = "format_partition" /\ ~run.ok /\ MkfsCalls = {}
    /\ \E i \in CallsOf(run.log, "findmnt") : run.log[i].res = "ok"

\* the engine looked for mkfs.ntfs, did not find it and said to install it
C23_InstallWitness ==
    /\ FormatOn([mounted |-> FALSE, luks |-> "plain", installed |-> FALSE])
    /\ op = "format_partition" /\ ~run.ok /\ MkfsCalls = {}
    /\ CallsOf(run.log, "which") # {} /\ InstallMessage

\* the engine refused to format a locked LUKS container
C23_LockedWitness ==
    /\ FormatOn([mounted |-> FALSE, luks |-> "locked", installed |-> TRUE])
    /\ op = "format_partition" /\ ~run.ok /\ MkfsCalls = {}
    /\ \E i \in ErrorNotifications(run.log) : run.log[i].text = "is encrypted and locked"

---------------------------------------------------------------------------
(* Spec: the conditions under which nothing is mounted *)

MountRun ==
    /\ phase = "done"
    /\ \/ op = "mount_partition"
       \/ op = "handle_request" /\ arg[1] = W("request") /\ arg[2] = W("mount")
MountTarget == IF op = "mount_partition" THEN arg[1] ELSE arg[3]

\* What a mount can find out about its target: whether it is mounted, and
\* whether it is a plain device, a locked LUKS container or the base device
\* of an unlocked one.
MountSystems == [mounted : BOOLEAN, luks : {"plain", "locked", "unlocked"}]

StatusNamesTarget(e) ==
    /\ IsCall(e, "cryptsetup") /\ e.args[1] = W("status")
    /\ e.res = "ok" /\ ends_with(e.lines[1], MountTarget)

\* a mount of sda1 or sdb1 ran on the system sys
MountOn(sys) ==
    /\ MountRun /\ MountTarget \in {sda1, sdb1}
    /\ \A i \in DOMAIN run.log :
          /\ IsCall(run.log[i], "findmnt") => (run.log[i].res = "ok" <=> sys.mounted)
          /\ (IsCall(run.log[i], "cryptsetup") /\ run.log[i].args[1] = W("isLuks")) =>
                (run.log[i].res = "ok" <=> sys.luks # "plain")
          /\ StatusNamesTarget(run.log[i]) => sys.luks = "unlocked"
    /\ (sys.luks = "unlocked" /\ CallsOf(run.log, "cryptsetup") # {}) =>
          \E i \in DOMAIN run.log : StatusNamesTarget(run.log[i])

\* neither the mount tool was invoked nor a mount directory created
NothingMounted == CallsOf(run.log, "mount") = {} /\ CallsOf(run.log, "mkdir") = {}

\* C24: a mount invokes neither mkdir nor the mount tool when the target is
\* a locked encrypted device or the base device of an unlocked one, and
\* returns failure then; nor when the target is already mounted, and then it
\* returns success after a warning and without an error.
C24_NothingMounted ==
    \A sys \in MountSystems :
        MountOn(sys) =>
            /\ sys.luks # "plain" => (NothingMounted /\ ~run.ok)
            /\ (sys.luks = "plain" /\ sys.mounted) =>
                  /\ NothingMounted /\ run.ok
                  /\ Told("Warning", "already mounted") \/ Told("warning", "already mounted")
                  /\ ~ErrorTold

\* C24 for the engine alone
C24_InProcess ==
    \A sys \in MountSystems :
        (MountOn(sys) /\ op = "mount_partition") =>
            /\ sys.luks # "plain" => (NothingMounted /\ ~run.ok)
            /\ (sys.luks = "plain" /\ sys.mounted) =>
                  /\ NothingMounted /\ run.ok
                  /\ Told("Warning", "already mounted")
                  /\ ~ErrorTold

\* the engine refused to mount the base device of an unlocked container
C24_InProcessWitness ==
    /\ MountOn([mounted |-> FALSE, luks |-> "unlocked"]) /\ op = "mount_partition"
    /\ NothingMounted /\ ~run.ok
    /\ Told("Error", "is an unlocked encrypted device")

\* the helper left a mounted partition alone
C24_HelperMountedWitness ==
    /\ MountOn([mounted |-> TRUE, luks |-> "plain"]) /\ op = "handle_request"
    /\ NothingMounted /\ run.ok /\ Told("warning", "already mounted")

---------------------------------------------------------------------------
(* Spec: locking a mapper that is mounted *)

LockRun ==
    /\ phase = "done"
    /\ \/ op = "lock_luks_device"
       \/ op = "handle_request" /\ arg[1] = W("request") /\ arg[2] = W("lock_luks")
LockTarget == IF op = "lock_luks_device" THEN arg[1] ELSE arg[3]

\* findmnt reported the mapper as mounted
MapperMounted ==
    \E i \in CallsOf(run.log, "findmnt") :
        /\ run.log[i].args[Len(run.log[i].args)] = mapper_path(LockTarget)
        /\ run.log[i].res = "ok"

CloseCalls ==
    {i \in CallsOf(run.log, "cryptsetup") : run.log[i].args[1] = W("close")}

\* C25: the lock of a mapper that is mounted returns failure, without
\* invoking `cryptsetup close` and without unmounting the mapper.
C25_LockOfMountedFails ==
    (LockRun /\ MapperMounted) =>
        /\ ~run.ok
        /\ CloseCalls = {}
        /\ CallsOf(run.log, "umount") = {}

\* C25 for the engine alone, with the error it reports
C25_InProcess ==
    (LockRun /\ op = "lock_luks_device" /\ MapperMounted) =>
        /\ ~run.ok
        /\ CloseCalls = {}
        /\ CallsOf(run.log, "umount") = {}
        /\ Told("Error", "is mounted. Unmount it first.")

\* the engine refused to lock the mounted mapper luks-sda1
C25_InProcessWitness ==
    /\ LockRun /\ op = "lock_luks_device" /\ arg[1] = luks_sda1 /\ MapperMounted
    /\ ~run.ok /\ CloseCalls = {}

---------------------------------------------------------------------------
(* Spec: the steps of delete_partition before parted rm *)

Deleted == phase = "done" /\ op = "delete_partition"

RmCalls == {i \in CallsOf(run.log, "parted") : run.log[i].args[3] = W("rm")}
WipeCalls == CallsOf(run.log, "wipefs")
UmountCalls == CallsOf(run.log, "umount")

\* the status queries that named the partition as the device of a mapping
StatusHits ==
    {i \in CallsOf(run.log, "cryptsetup") :
        /\ run.log[i].args[1] = W("status") /\ run.log[i].res = "ok"
        /\ ends_with(run.log[i].lines[1], arg[1])}

\* delete_partition's own tests whether something is mounted (those made
\* inside unmount_partition and lock_luks_device are not in its log)
MountTests == CallsOf(run.log, "findmnt")

\* between the effects a and b an unmount_partition returned Ok: the device
\* was unmounted, lazily or not, or was found not to be mounted any more
UnmountedBetween(a, b) ==
    \E i \in (a + 1)..(b - 1) :
        \/ IsCall(run.log[i], "umount") /\ run.log[i].res = "ok"
        \/ IsNotification(run.log[i], "Warning") /\ run.log[i].text = "not mounted"

\* an unmount or a close that failed for good
UnmountFailed ==
    \E i \in UmountCalls :
        /\ run.log[i].res # "ok"
        /\ ~\E j \in UmountCalls : j > i /\ run.log[j].res = "ok"
CloseFailed == \E c \in CloseCalls : run.log[c].res # "ok"

\* C26: in delete_partition every `parted rm` comes after the mapper of an
\* unlocked partition was unmounted (if its mount test said mounted) and then
\* closed with success, and after the raw device was unmounted (if its mount
\* test said mounted), in this order, with the header wipe between these
\* steps and the rm; and when an unmount or the close fails, neither wipefs
\* nor parted rm is invoked and the deletion returns failure.
C26_DeleteOrder ==
    Deleted =>
        /\ \A r \in RmCalls :
              /\ \A i \in 1..(r - 1) : ~IsNotification(run.log[i], "Error")
              /\ \A c \in CloseCalls : c < r /\ run.log[c].res = "ok"
              /\ \A u \in UmountCalls : u < r
              /\ \A w \in WipeCalls :
                    /\ w < r
                    /\ \A c \in CloseCalls : c < w
                    /\ \A u \in UmountCalls : u < w
              /\ \A s \in StatusHits :
                    \E f \in MountTests : \E c \in CloseCalls :
                        /\ s < f /\ f < c
                        /\ run.log[f].args = <<W("-n"), mapper_path(run.log[s].args[2])>>
                        /\ run.log[c].args = <<W("close"), run.log[s].args[2]>>
                        /\ run.log[f].res = "ok" => UnmountedBetween(f, c)
              /\ \E m \in MountTests :
                    /\ \A c \in CloseCalls : c < m
                    /\ m < r
                    /\ run.log[m].res = "ok" => UnmountedBetween(m, r)
        /\ (UnmountFailed \/ CloseFailed) =>
              (~run.ok /\ WipeCalls = {} /\ RmCalls = {})

\* C26 witness: sda1 was unlocked as luks-sda1 and both were mounted; the
\* mapper was unmounted and closed, sda1 unmounted, the header wiped, and
\* then the partition removed
C26_Witness ==
    /\ Deleted /\ arg[1] = sda1 /\ run.ok
    /\ \E s \in StatusHits : \E f \in MountTests : \E u1 \in UmountCalls :
       \E c \in CloseCalls : \E m \in MountTests : \E u2 \in UmountCalls :
       \E w \in WipeCalls : \E r \in RmCalls :
          /\ s < f /\ f < u1 /\ u1 < c /\ c < m /\ m < u2 /\ u2 < w /\ w < r
          /\ run.log[f].res = "ok" /\ run.log[m].res = "ok"
          /\ run.log[c].args = <<W("close"), luks_sda1>>

\* a close that failed stopped the deletion
C26_AbortWitness ==
    /\ Deleted /\ CloseFailed /\ ~run.ok /\ RmCalls = {} /\ WipeCalls = {}

---------------------------------------------------------------------------
(* Spec: the failures delete_partition only warns about *)

ProbeCalls == CallsOf(run.log, "partprobe")

WarnedAfter(i, text) ==
    /\ i + 1 \in DOMAIN run.log
    /\ IsNotification(run.log[i + 1], "Warning") /\ run.log[i + 1].text = text

\* the split of the name, which comes between the wipe and `parted rm`,
\* returns an error: an nvme or mmcblk name without a 'p'
SplitFails(name) ==
    /\ starts_with(name, <<"n","v","m","e">>) \/ starts_with(name, <<"m","m","c","b","l","k">>)
    /\ LastIndexOf(name, "p") = 0

\* C27: in delete_partition a header wipe that fails or cannot be started
\* is followed by a warning and, where the name yields a disk and an index,
\* by `parted rm`; and a partprobe that fails or cannot be started after a
\* successful rm leaves the operation returning success, with a warning and
\* no error when it failed.
C27_WarningsOnly ==
    Deleted =>
        /\ \A w \in WipeCalls :
              run.log[w].res # "ok" =>
                  /\ WarnedAfter(w, "Warning: LUKS header not wiped")
                  /\ ~SplitFails(arg[1]) =>
                        /\ \E r \in RmCalls : w < r
                        /\ \A i \in w..Min(RmCalls) : ~IsNotification(run.log[i], "Error")
        /\ \A q \in ProbeCalls :
              /\ \E r \in RmCalls : r < q /\ run.log[r].res = "ok"
              /\ run.ok
              /\ run.log[q].res = "fail" => WarnedAfter(q, "Warning: partprobe failed")
              /\ \A i \in q..Len(run.log) : ~IsNotification(run.log[i], "Error")
        /\ \A r \in RmCalls : run.log[r].res = "ok" => (run.ok /\ ProbeCalls # {})

\* C27 witness: the wipe of the header of sda1 failed, the partition was
\* removed, partprobe failed, and the deletion returned success
C27_Witness ==
    /\ Deleted /\ arg[1] = sda1 /\ run.ok
    /\ \E w \in WipeCalls : \E r \in RmCalls : \E q \in ProbeCalls :
          /\ w < r /\ r < q
          /\ run.log[w].res = "fail" /\ run.log[r].res = "ok" /\ run.log[q].res = "fail"

---------------------------------------------------------------------------
(* SpecSize: the free-space guard of partition creation *)

CreatedInProcess == phase = "done" /\ op = "create_partition_with_fs"
CreatedByHelper  == phase = "done" /\ op = "helper_create_partition"

\* the inventory create_partition_raw read, and whether it lists the disk
CreateInventory == Inventory(run.log[Min(LsblkCalls(run.log))].text)
CreateDiskListed ==
    /\ LsblkCalls(run.log) # {}
    /\ run.log[Min(LsblkCalls(run.log))].res = "ok"
    /\ FindDisk(CreateInventory, arg[1]) # 0
CreateDisk == CreateInventory[FindDisk(CreateInventory, arg[1])]

\* the size input is blank, or the Size Parser accepts it
CreateBlank == trim(arg[2]) = <<>>
CreateRequestKnown == CreateBlank \/ parse_size(arg[2]).ok
\* the requested size in bytes: all free space when the input is blank
CreateRequest == IF CreateBlank THEN FreeSpaceOf(CreateDisk) ELSE parse_size(arg[2]).val

\* the helper's reading of the disk: the aligned end of the last partition
\* parted printed (1 MiB when it printed none or failed) and the size
\* `lsblk -b -d -n -o SIZE` printed
HelperPrint == Min(CallsOf(run.log, "parted"))
HelperStartOffset ==
    LET e == run.log[HelperPrint]
    IN  IF e.res = "ok" /\ e.lines # <<>> /\ e.lines[1] # <<>>
        THEN NatMulSmall(NatDivSmall(NatAdd(e.lines[1], MiB), MiBInt), MiBInt)
        ELSE MiB
HelperDiskSize == StrToNat(run.log[Min(LsblkCalls(run.log))].lines[1])
HelperFreeSpace == saturating_sub(HelperDiskSize, HelperStartOffset)
HelperCreateRequest ==
    IF CreateBlank THEN HelperFreeSpace ELSE helper_parse_size(arg[2]).val

\* C28, the helper: create_partition invokes mkpart only if the space between
\* its start offset and the end of the disk is non-zero and the request does
\* not exceed it
C28_Helper ==
    CreatedByHelper =>
        \A i \in MkpartCalls(run.log) :
            /\ LsblkCalls(run.log) # {} /\ Min(LsblkCalls(run.log)) < i
            /\ HelperFreeSpace # <<0>>
            /\ CreateBlank \/ helper_parse_size(arg[2]).ok
            /\ ~NatLess(HelperFreeSpace, HelperCreateRequest)

\* C28: create_partition_raw invokes the partition editor's mkpart only after
\* reading an inventory that lists the disk, and only if the disk's free space
\* (its size minus the sum of the sizes of its partitions) is non-zero and the
\* requested size (all free space when the input is blank) does not exceed it;
\* when the free space is zero or the request exceeds it the operation fails
\* with no mkpart invocation.
C28_FreeSpaceGuard ==
    /\ CreatedInProcess =>
        /\ \A i \in MkpartCalls(run.log) :
              /\ CreateDiskListed /\ Min(LsblkCalls(run.log)) < i
              /\ FreeSpaceOf(CreateDisk) # <<0>>
              /\ CreateRequestKnown
              /\ ~NatLess(FreeSpaceOf(CreateDisk), CreateRequest)
        /\ (/\ CreateDiskListed
            /\ \/ FreeSpaceOf(CreateDisk) = <<0>>
               \/ CreateRequestKnown /\ NatLess(FreeSpaceOf(CreateDisk), CreateRequest))
           => ~run.ok /\ MkpartCalls(run.log) = {}
    /\ C28_Helper

\* C28 witness: 2G was requested on sdb, which the inventory shows with 1 GB
\* free; the creation failed with the message and parted was not run
C28_Witness ==
    /\ CreatedInProcess /\ arg[1] = sdb /\ arg[2] = <<"2","G">>
    /\ CreateDiskListed /\ FreeSpaceOf(CreateDisk) = Sci(<<1>>, 9)
    /\ ~run.ok /\ MkpartCalls(run.log) = {}
    /\ \E i \in DOMAIN run.log :
          run.log[i] = Notification_send("Requested size exceeds available space", "Error")

\* C28 witness: the inventory shows the disk full, and nothing was created
C28_FullWitness ==
    /\ CreatedInProcess /\ CreateDiskListed /\ FreeSpaceOf(CreateDisk) = <<0>>
    /\ ~run.ok /\ MkpartCalls(run.log) = {}

\* C28 witness: 500M was requested with 1 GB free, and mkpart ran
C28_CreatedWitness ==
    /\ CreatedInProcess /\ arg[2] = <<"5","0","0","M">>
    /\ MkpartCalls(run.log) # {} /\ run.ok

---------------------------------------------------------------------------
(* Spec: the stages of encrypt_and_format_partition *)

EncryptFormatRun ==
    /\ phase = "done"
    /\ \/ op = "encrypt_and_format_partition"
       \/ op = "handle_request" /\ arg[1] = W("request") /\ arg[2] = W("encrypt_and_format")
EncryptFormatTarget == IF op = "encrypt_and_format_partition" THEN arg[1] ELSE arg[3]
\* format!("luks-{}", partition)
DerivedMapper == LuksPrefix \o EncryptFormatTarget

LuksFormatCalls ==
    {i \in CallsOf(run.log, "cryptsetup") : run.log[i].args[1] = W("luksFormat")}
OpenCalls ==
    {i \in CallsOf(run.log, "cryptsetup") : run.log[i].args[1] = W("open")}

\* the places of the log at which the unlock stage has succeeded: a
\* `cryptsetup open` that exited with success, or unlock_luks_device finding
\* the partition unlocked already
UnlockedAt ==
    {i \in OpenCalls : run.log[i].res = "ok"}
    \cup {i \in DOMAIN run.log :
              run.log[i] = Notification_send("is already unlocked", "Warning")}

\* the places at which wait_for_device has found the node of the derived
\* mapper: the path exists and blockdev reads its size
NodeFoundAt ==
    {i \in DOMAIN run.log :
        /\ run.log[i] = Probe("exists", mapper_path(DerivedMapper), "yes")
        /\ i + 1 \in DOMAIN run.log
        /\ IsCall(run.log[i + 1], "blockdev") /\ run.log[i + 1].res = "ok"
        /\ run.log[i + 1].args[2] = mapper_path(DerivedMapper)}
NodeMissingAt ==
    {i \in DOMAIN run.log : run.log[i] = Probe("exists", mapper_path(DerivedMapper), "no")}

\* the stages up to the unlock, for the engine and for the helper alike:
\* one encryption at most, an unlock only after an encryption that succeeded
\* and only into luks-<partition>, a maker only after both succeeded, and a
\* failure of either ends the run in failure with nothing further invoked
EncryptThenUnlock ==
    /\ Cardinality(LuksFormatCalls) <= 1 /\ Cardinality(OpenCalls) <= 1
    /\ \A e \in LuksFormatCalls :
          /\ run.log[e].args[Len(run.log[e].args)] = dev_path(EncryptFormatTarget)
          /\ run.log[e].res # "ok" => (~run.ok /\ OpenCalls = {} /\ MkfsCalls = {})
    /\ \A u \in OpenCalls :
          /\ run.log[u].args = <<W("open"), dev_path(EncryptFormatTarget), DerivedMapper>>
          /\ \E e \in LuksFormatCalls : e < u /\ run.log[e].res = "ok"
          /\ run.log[u].res # "ok" => (~run.ok /\ MkfsCalls = {})
    /\ \A m \in MkfsCalls :
          \E e \in LuksFormatCalls : \E u \in UnlockedAt :
              e < u /\ u < m /\ run.log[e].res = "ok"

\* the helper's format_partition, to which its encrypt_and_format hands the
\* derived mapper name whatever its ten tests of the path found: given a
\* luks- name it invokes the maker only after finding /dev/mapper/<name>
HelperFormatOfMapper ==
    (/\ phase = "done" /\ op = "handle_request"
     /\ arg[1] = W("request") /\ arg[2] = W("format")
     /\ starts_with(arg[3], LuksPrefix)) =>
        \A m \in MkfsCalls :
            \E w \in 1..(m - 1) : run.log[w] = Probe("exists", mapper_path(arg[3]), "yes")

\* C29: encrypt_and_format_partition encrypts, then unlocks into the mapper
\* name luks-<partition>, then waits for the mapper node, then formats: the
\* unlock is never invoked after an encryption that failed, and the maker is
\* never invoked unless the encryption and the unlock succeeded and, after
\* them, the mapper node was found; a run in which the node is not found
\* fails with no maker invoked.
C29_StageOrder ==
    /\ EncryptFormatRun => EncryptThenUnlock
    /\ (EncryptFormatRun /\ op = "encrypt_and_format_partition") =>
          /\ \A m \in MkfsCalls :
                \E u \in UnlockedAt : \E w \in NodeFoundAt : u < w /\ w + 1 < m
          /\ NodeMissingAt # {} => (~run.ok /\ MkfsCalls = {})
    /\ HelperFormatOfMapper

\* C29 witness: sda1 was encrypted, opened as luks-sda1, the node was found
\* and the maker ran, in this order, and the run succeeded
C29_Witness ==
    /\ EncryptFormatRun /\ op = "encrypt_and_format_partition" /\ arg[1] = sda1 /\ run.ok
    /\ \E e \in LuksFormatCalls : \E u \in OpenCalls : \E w \in NodeFoundAt :
       \E m \in MkfsCalls : e < u /\ u < w /\ w < m

\* C29 witness: the encryption failed and nothing was opened or formatted
C29_EncryptFailedWitness ==
    /\ EncryptFormatRun /\ op = "encrypt_and_format_partition" /\ ~run.ok
    /\ \E e \in LuksFormatCalls : run.log[e].res = "fail"
    /\ OpenCalls = {} /\ MkfsCalls = {}

\* C29 witness: the helper encrypted, opened and formatted
C29_HelperWitness ==
    /\ EncryptFormatRun /\ op = "handle_request" /\ run.ok
    /\ LuksFormatCalls # {} /\ OpenCalls # {} /\ MkfsCalls # {}

\* C29 witness: the helper's format_partition found the mapper and formatted it
C29_HelperFormatWitness ==
    /\ phase = "done" /\ op = "handle_request" /\ arg[2] = W("format")
    /\ starts_with(arg[3], LuksPrefix) /\ MkfsCalls # {}

---------------------------------------------------------------------------
(* Spec: the label create_partition_table hands to parted *)

TableRun ==
    /\ phase = "done"
    /\ \/ op = "create_partition_table"
       \/ op = "handle_request" /\ arg[1] = W("request")
          /\ arg[2] = W("create_partition_table")
TableType == IF op = "create_partition_table" THEN arg[2] ELSE arg[4]

MklabelCalls ==
    {i \in CallsOf(run.log, "parted") :
        Len(run.log[i].args) = 4 /\ run.log[i].args[3] = W("mklabel")}

\* the label of a table type as the claim states it: <<>> when there is none
SupportedLabel(table_type) ==
    IF table_type = W("gpt") THEN W("gpt")
    ELSE IF table_type = W("mbr") THEN W("msdos")
    ELSE <<>>

\* C30: create_partition_table invokes parted's mklabel only with the label
\* of its table type, gpt for "gpt" and msdos for "mbr"; for every other
\* table type it fails without invoking parted.
C30_SupportedLabelOnly ==
    TableRun =>
        /\ \A i \in MklabelCalls :
              /\ SupportedLabel(TableType) # <<>>
              /\ run.log[i].args[4] = SupportedLabel(TableType)
        /\ SupportedLabel(TableType) = <<>> =>
              (~run.ok /\ CallsOf(run.log, "parted") = {})

\* C30 for the helper, which takes "msdos" as well as "mbr": the label is gpt
\* or msdos, and a type that is none of the three fails without parted
C30_Helper ==
    (TableRun /\ op = "handle_request") =>
        /\ \A i \in MklabelCalls :
              run.log[i].args[4] =
                  IF TableType = W("gpt") THEN W("gpt") ELSE W("msdos")
        /\ TableType \notin {W("gpt"), W("mbr"), W("msdos")} =>
              (~run.ok /\ CallsOf(run.log, "parted") = {})

\* the engine was given "msdos" and ran parted mklabel msdos
C30_EngineWitness ==
    /\ TableRun /\ op = "create_partition_table" /\ arg = <<sdb, W("msdos")>>
    /\ \E i \in MklabelCalls : run.log[i].args[4] = W("msdos")

\* the helper was given "mbr" and ran parted mklabel msdos
C30_HelperWitness ==
    /\ TableRun /\ op = "handle_request" /\ TableType = W("mbr")
    /\ \E i \in MklabelCalls : run.log[i].args[4] = W("msdos")

\* the helper was given "bsd" and failed without running parted
C30_HelperRejectWitness ==
    /\ TableRun /\ op = "handle_request" /\ TableType = W("bsd") /\ arg[3] = sdb
    /\ ~run.ok /\ CallsOf(run.log, "parted") = {}

---------------------------------------------------------------------------
(* SpecSize: malformed sizes *)

\* inputs whose numeric part is no decimal number at all: letters, two
\* decimal points, nothing before the suffix, an unknown suffix, a doubled
\* suffix
NonNumericSizes ==
    { <<"a","b","c">>, <<"1",".","2",".","3","M">>, <<"M">>, <<"1","0","0","X">>,
      <<"1","M","M">> }
\* inputs whose numeric part is negative, infinite or not a number
NonFiniteSizes ==
    { <<"-","1","M">>, <<"i","n","f">>, <<"-","i","n","f">>, <<"n","a","n">> }
MalformedSizes == NonNumericSizes \cup NonFiniteSizes

\* C31: both size parsers fail on every malformed input (a numeric part that
\* is not a finite, non-negative decimal number: a negative number, "nan",
\* "inf", a doubled unit suffix), and a creation given such an input never
\* invokes mkpart.
C31_MalformedRejected ==
    /\ \A s \in MalformedSizes : Parsed(s) => ~run.ok
    /\ (phase = "done" /\ op \in {"create_partition_with_fs", "helper_create_partition"}
        /\ arg[2] \in MalformedSizes) => MkpartCalls(run.log) = {}

\* C31 for the inputs that are no number: both parsers fail, and nothing is
\* created
C31_NonNumericRejected ==
    /\ \A s \in NonNumericSizes : Parsed(s) => ~run.ok
    /\ (phase = "done" /\ op \in {"create_partition_with_fs", "helper_create_partition"}
        /\ arg[2] \in NonNumericSizes) => (~run.ok /\ MkpartCalls(run.log) = {})

\* the parser failed on the doubled suffix of "1MM"
C31_DoubledSuffixWitness ==
    Parsed(<<"1","M","M">>) /\ op = "parse_size" /\ ~run.ok

\* what the parsers make of the other malformed inputs: 0 of a negative
\* number and of "nan", u64::MAX of "inf"
C31_NonFiniteValues ==
    /\ Parsed(<<"-","1","M">>) => Yields(<<0>>)
    /\ Parsed(<<"n","a","n">>) => Yields(<<0>>)
    /\ Parsed(<<"-","i","n","f">>) => Yields(<<0>>)
    /\ Parsed(<<"i","n","f">>) => Yields(U64Max)

\* "nan" was given to create_partition_with_fs and mkpart ran
C31_NanCreatesWitness ==
    /\ phase = "done" /\ op = "create_partition_with_fs" /\ arg[2] = <<"n","a","n">>
    /\ MkpartCalls(run.log) # {}

---------------------------------------------------------------------------
(* Spec, SpecResize: a state-changing tool that exits with failure *)

\* an invocation of the maker, of parted mklabel, mkpart or rm, of cryptsetup
\* luksFormat, open or close, or of the table writer sfdisk --force
StateChangingCall(e) ==
    /\ e.k = "call"
    /\ \/ e.name \in MkfsTools
       \/ e.name = "parted" /\ Len(e.args) >= 3
          /\ e.args[3] \in {W("mklabel"), W("mkpart"), W("rm")}
       \/ e.name = "cryptsetup" /\ e.args[1] \in {W("luksFormat"), W("open"), W("close")}
       \/ e.name = "sfdisk" /\ e.args[1] = W("--force")

FailedChanges == {i \in DOMAIN run.log : StateChangingCall(run.log[i]) /\ run.log[i].res = "fail"}

\* a notification of success: level Info from the engine, "info" from the helper
SuccessNote(e) ==
    \/ IsNotification(e, "Info")
    \/ e.k = "resp" /\ e.name = "notification" /\ e.tag = "info"

\* C32: when the maker, parted mklabel, mkpart or rm, cryptsetup luksFormat,
\* open or close, or the table writer exits with failure, the operation
\* returns failure and sends no notification of success afterwards.
C32_FailureNotSuccess ==
    phase = "done" =>
        \A i \in FailedChanges :
            /\ ~run.ok
            /\ \A j \in DOMAIN run.log : j > i => ~SuccessNote(run.log[j])

\* C32 witness: `cryptsetup open` exited with failure; unlock_luks_device
\* returned failure after an Error notification and no notification of success
C32_Witness ==
    /\ phase = "done" /\ op = "unlock_luks_device" /\ ~run.ok
    /\ \E i \in FailedChanges :
          /\ run.log[i].args[1] = W("open")
          /\ \E j \in DOMAIN run.log : j > i /\ IsNotification(run.log[j], "Error")
          /\ \A j \in DOMAIN run.log : j > i => ~SuccessNote(run.log[j])

\* C32 witness: the table writer exited with failure and the resize failed
C32_TableWriterWitness ==
    /\ phase = "done" /\ op = "resize_partition_and_filesystem" /\ ~run.ok
    /\ \E i \in FailedChanges : run.log[i].name = "sfdisk"

\* C32 witness: the helper's maker exited with failure and an error was written
C32_HelperWitness ==
    /\ phase = "done" /\ op = "handle_request" /\ ~run.ok
    /\ \E i \in FailedChanges : run.log[i].name \in MkfsTools
    /\ \E j \in DOMAIN run.log : run.log[j].k = "resp" /\ run.log[j].name = "error"

---------------------------------------------------------------------------
(* Spec: progress events on every return path *)

ProgressStarts ==
    {i \in DOMAIN run.log :
        \/ run.log[i].k = "ev" /\ run.log[i].name = "StartProgress"
        \/ run.log[i].k = "resp" /\ run.log[i].name = "progress" /\ run.log[i].tag = "start"}
ProgressEnds ==
    {i \in DOMAIN run.log :
        \/ run.log[i].k = "ev" /\ run.log[i].name = "EndProgress"
        \/ run.log[i].k = "resp" /\ run.log[i].name = "progress" /\ run.log[i].tag = "end"}

\* C33: when an operation of the engine or of the helper returns, with
\* success or with failure, it has sent as many progress-end events as
\* progress-start events.
C33_ProgressBalanced ==
    phase = "done" => Cardinality(ProgressEnds) = Cardinality(ProgressStarts)

\* the runs that succeed leave no dialog shown: the last progress event of
\* such a run is an end (the counts may differ all the same, where an
\* operation starts progress around operations that start and end their own)
C33_HiddenOnSuccess ==
    (phase = "done" /\ run.ok) =>
        \A i \in ProgressStarts : \E j \in ProgressEnds : j > i

\* a run that returned with the progress dialog shown: the last progress
\* event it sent is a start
C33_LeftShown ==
    /\ phase = "done" /\ ProgressStarts # {} /\ ~run.ok
    /\ \A j \in ProgressEnds : \E i \in ProgressStarts : i > j

\* create_partition_with_fs was given "abc": it sent StartProgress, the Size
\* Parser failed, and it returned without EndProgress
C33_CreateWitness ==
    /\ C33_LeftShown /\ op = "create_partition_with_fs" /\ arg[2] = <<"a","b","c">>
    /\ ProgressEnds = {}

\* the helper's create_partition could not run parted mkpart and returned
\* after progress_start without progress_end
C33_HelperWitness ==
    /\ C33_LeftShown /\ op = "handle_request" /\ arg[2] = W("create_partition")
    /\ ProgressEnds = {}
    /\ \E i \in MkpartCalls(run.log) : run.log[i].res = "err"

---------------------------------------------------------------------------
(* SpecGuardLive: the release of the guard *)

\* tokio runs a spawned task whenever it can take a step: an operation
\* whose tools return sends its events, then Refresh, and ends
TaskFairness ==
    /\ WF_vars(Task_send)
    /\ WF_vars(Task_refresh)
    /\ WF_vars(Task_exit)

\* the keys of the operations whose tasks send no progress event (mount,
\* unmount, create_partition_table), of one that sends them
\* (format_partition), and the keys of the confirmation dialog
ReleaseKeys == {"m", "Right", "Enter", "Esc", "create_partition_table", "format_partition"}

\* event.rs: one of these keys is put on the channel
PressReleaseKey ==
    /\ nkeys[1] < MaxKeys
    /\ \E k \in ReleaseKeys :
          /\ k \in Starting => nkeys[2] < MaxStarts
          /\ chan' = Append(chan, Key(k))
          /\ nkeys' = <<nkeys[1] + 1, nkeys[2] + (IF k \in Starting THEN 1 ELSE 0)>>
    /\ UNCHANGED <<flag, tasks, ui, opsVars, helperVars>>

NextRelease ==
    \/ PressReleaseKey
    \/ Key_mount
    \/ Key_confirm
    \/ Key_other
    \/ Confirm_toggle
    \/ Confirm_cancel
    \/ Confirm_enter
    \/ Consume_other
    \/ Consume_StartProgress
    \/ Consume_EndProgress
    \/ Task_send
    \/ Task_refresh
    \/ Task_exit

SpecGuardLive == Init /\ [][NextRelease]_vars /\ TaskFairness

\* the step is the end of a task
TaskEnds == Len(tasks') < Len(tasks)

\* C34: the step that ends a task leaves the flag false, whatever events the
\* task sent; a flag that is set is false again later; and a key that starts
\* an operation, handled while the flag is false, spawns its task.
C34_GuardReleased ==
    /\ [][TaskEnds => ~flag']_vars
    /\ flag ~> ~flag
    /\ [][(StartKeyAtHead /\ Handled /\ ~flag) =>
              (flag' /\ Len(tasks') = Len(tasks) + 1)]_vars

\* C34 witness: a task that sent no progress event (its Refresh is the only
\* event on the channel) has ended, and the flag is false
C34_Witness ==
    /\ ~flag /\ tasks = <<>> /\ chan = <<Refresh>> /\ ~ui.progress

\* C34 witness: after the end of a task (its Refresh has been consumed or is
\* on the channel) a second operation has been started
C34_LaterStartWitness ==
    /\ flag /\ Len(tasks) = 1 /\ tasks[1].pc = 1 /\ nkeys[2] = 2
    /\ \E i \in DOMAIN chan : chan[i] = Refresh

---------------------------------------------------------------------------
(* Spec: the validity of the derived mapper name *)

\* the unlock stage got as far as its tool, or found the partition unlocked
UnlockAttempted ==
    \/ OpenCalls # {}
    \/ \E i \in DOMAIN run.log :
          run.log[i] = Notification_send("is already unlocked", "Warning")

\* C35: for every partition name the validator accepts, the mapper name
\* luks-<partition> of encrypt_and_format is accepted too, so that after an
\* encryption that succeeded the unlock is not rejected by the validator.
C35_MapperNameValid ==
    (EncryptFormatRun /\ validate_device_name(EncryptFormatTarget)) =>
        /\ validate_device_name(DerivedMapper)
        /\ \A e \in LuksFormatCalls : run.log[e].res = "ok" => UnlockAttempted

\* C35 for the names that leave room for the prefix
C35_ShortNames ==
    (/\ EncryptFormatRun /\ validate_device_name(EncryptFormatTarget)
     /\ str_len(EncryptFormatTarget) + Len(LuksPrefix) <= MaxNameLen) =>
        /\ validate_device_name(DerivedMapper)
        /\ \A e \in LuksFormatCalls : run.log[e].res = "ok" => UnlockAttempted

\* a partition with a name of 32 characters was encrypted, and the run ended
\* there: the unlock refused the mapper name of 37 characters
C35_RejectedAfterEncrypt ==
    /\ EncryptFormatRun /\ EncryptFormatTarget = LongName(MaxNameLen)
    /\ \E e \in LuksFormatCalls : run.log[e].res = "ok"
    /\ ~UnlockAttempted /\ ~run.ok

\* sda1 was encrypted and luks-sda1 opened
C35_ShortWitness ==
    /\ EncryptFormatRun /\ EncryptFormatTarget = sda1
    /\ \E e \in LuksFormatCalls : run.log[e].res = "ok"
    /\ OpenCalls # {}

---------------------------------------------------------------------------
(* SpecSize: the range given to mkpart *)

\* the byte offset an argument like "500MB" names
MBArg(a) == Sci(StrToNat(SubSeq(a, 1, Len(a) - 2)), 6)
MkpartStart(i) == MBArg(run.log[i].args[5])
MkpartEnd(i)   == MBArg(run.log[i].args[6])

\* Where the partitions of a disk lie is not in the inventory, which has
\* their sizes only.  The first sectors of a disk hold the partition table,
\* so its first partition begins at a positive offset: at 1 MiB as parted
\* and fdisk place it, or at sector 63 (32,256) on disks partitioned long
\* ago.  The partitions that follow begin where the one before ends or later.
FirstStarts == {MiB, <<3,2,2,5,6>>}

\* the least end the last partition of the disk can have, given where the
\* first one begins
LastEndFrom(first_start, device) == NatAdd(first_start, UsedSpaceOf(device))

\* C36, the engine: the start given to mkpart is not less than the end of the
\* last partition of the disk, wherever the first partition begins
C36_InProcess ==
    CreatedInProcess =>
        \A i \in MkpartCalls(run.log) :
            CreateDisk.partitions # <<>> =>
                \A f \in FirstStarts : NatLeq(LastEndFrom(f, CreateDisk), MkpartStart(i))

\* C36, the helper: the start given to mkpart is not less than the greatest
\* end offset parted printed
C36_Helper ==
    CreatedByHelper =>
        \A i \in MkpartCalls(run.log) :
            (run.log[HelperPrint].res = "ok" /\ run.log[HelperPrint].lines[1] # <<>>) =>
                NatLeq(run.log[HelperPrint].lines[1], MkpartStart(i))

\* C36: for every create-partition request that gets as far as mkpart, the
\* start given to mkpart, a whole number of megabytes, is not less than the
\* end of any partition the disk has.
C36_StartAfterPartitions == C36_InProcess /\ C36_Helper

\* what the engine gives as the start: the sum of the sizes of the
\* partitions, in whole megabytes
C36_StartIsUsedSpace ==
    CreatedInProcess =>
        \A i \in MkpartCalls(run.log) :
            run.log[i].args[5] = MB(NatDivPow10(UsedSpaceOf(CreateDisk), 6))

\* the engine created a partition from 500MB on a disk whose partition of
\* 500,000,000 bytes begins at 1 MiB or at sector 63
C36_EngineWitness ==
    /\ CreatedInProcess /\ arg[1] = sdb
    /\ \E i \in MkpartCalls(run.log) :
          /\ CreateDisk.partitions # <<>>
          /\ run.log[i].args[5] = <<"5","0","0","M","B">>
          /\ run.log[i].res = "ok"

\* the helper created a partition from 524MB on a disk whose last partition
\* ends at byte 524,287,999
C36_HelperWitness ==
    /\ CreatedByHelper
    /\ \E i \in MkpartCalls(run.log) :
          /\ run.log[HelperPrint].lines = <<<<5,2,4,2,8,7,9,9,9>>>>
          /\ run.log[i].args[5] = <<"5","2","4","M","B">>
          /\ run.log[i].res = "ok"

\* C37: for every create-partition request that gets as far as mkpart, the
\* end given to mkpart is greater than the start, also when the requested
\* size is below one megabyte.
C37_EndAfterStart ==
    (CreatedInProcess \/ CreatedByHelper) =>
        \A i \in MkpartCalls(run.log) : NatLess(MkpartStart(i), MkpartEnd(i))

\* the size the run asked for, in bytes
RequestedBytes == IF CreatedByHelper THEN HelperCreateRequest ELSE CreateRequest

\* C37 for the requests of one megabyte or more
C37_MegabyteOrMore ==
    (CreatedInProcess \/ CreatedByHelper) =>
        \A i \in MkpartCalls(run.log) :
            NatLeq(Sci(<<1>>, 6), RequestedBytes) => NatLess(MkpartStart(i), MkpartEnd(i))

\* 500K was asked for on the empty disk sdb and mkpart ran from 0MB to 0MB
C37_EmptyRangeWitness ==
    /\ CreatedInProcess /\ arg[1] = sdb /\ arg[2] = <<"5","0","0","K">>
    /\ \E i \in MkpartCalls(run.log) :
          /\ run.log[i].args[5] = <<"0","M","B">>
          /\ run.log[i].args[6] = <<"0","M","B">>

\* the helper was asked for 500M and gave mkpart a range that is not empty
C37_HelperWitness ==
    /\ CreatedByHelper /\ arg[2] = <<"5","0","0","M">>
    /\ \E i \in MkpartCalls(run.log) : NatLess(MkpartStart(i), MkpartEnd(i))

---------------------------------------------------------------------------
(* Spec: delete_partition on a name with no partition index *)

DeleteRun ==
    /\ phase = "done"
    /\ \/ op = "delete_partition"
       \/ op = "handle_request" /\ arg[1] = W("request") /\ arg[2] = W("delete_partition")
DeleteTarget == IF op = "delete_partition" THEN arg[1] ELSE arg[3]

\* the name splits into a disk and a numeric index: digits at its end, which
\* for an nvme or mmcblk name follow its last 'p'
Splittable(name) ==
    LET index == IF starts_with(name, <<"n","v","m","e">>)
                    \/ starts_with(name, <<"m","m","c","b","l","k">>)
                 THEN IF LastIndexOf(name, "p") = 0 THEN <<>>
                      ELSE SubSeq(name, LastIndexOf(name, "p") + 1, Len(name))
                 ELSE SubSeq(name, Len(trim_end_numeric(name)) + 1, Len(name))
    IN  index # <<>> /\ \A i \in DOMAIN index : is_numeric(index[i])

\* C38: on a name that does not split into a disk and a numeric index,
\* delete_partition fails without wiping an encryption header and without
\* invoking parted rm.
C38_NoIndexNoDestruction ==
    (DeleteRun /\ ~Splittable(DeleteTarget)) =>
        /\ ~run.ok
        /\ WipeCalls = {}
        /\ RmCalls = {}

\* C38 for the helper's delete_partition
C38_Helper ==
    (DeleteRun /\ op = "handle_request" /\ ~Splittable(DeleteTarget)) =>
        /\ ~run.ok
        /\ WipeCalls = {}
        /\ RmCalls = {}

\* the engine found nvme0n1 to be a LUKS container, wiped its header and
\* failed at the split of the name
C38_WipedWitness ==
    /\ DeleteRun /\ op = "delete_partition" /\ arg[1] = nvme0n1
    /\ WipeCalls # {} /\ RmCalls = {} /\ ~run.ok

\* the engine ran parted rm with an empty index on a name without digits
C38_RmWitness ==
    /\ DeleteRun /\ op = "delete_partition" /\ ~Splittable(arg[1])
    /\ \E i \in RmCalls : run.log[i].args[4] = <<>> /\ run.log[i].res = "ok"
    /\ run.ok

\* the helper refused sdb before running anything
C38_HelperWitness ==
    /\ DeleteRun /\ op = "handle_request" /\ DeleteTarget = sdb
    /\ ~run.ok /\ RmCalls = {}
    /\ \E i \in DOMAIN run.log : run.log[i].k = "resp" /\ run.log[i].name = "error"


---------------------------------------------------------------------------
(* SpecResize: the extent written for the target partition *)

\* the table writes of the run that handed a table to sfdisk
WrittenTables == {i \in TableWriteCalls(run.log) : run.log[i].lines # <<>>}

\* the field of a descriptor line that begins with `key`, and its number
FieldOf(line, key) ==
    LET parts == split(line, {":", ","})
        hits  == {j \in DOMAIN parts : starts_with(trim(parts[j]), <<key>>)}
    IN  IF hits = {} THEN <<>> ELSE trim(parts[Min(hits)])
FieldNat(line, key) == StrToNat(SelectSeq(FieldOf(line, key), is_numeric))

\* the lines of a table that describe the target, and those that describe
\* another partition
TargetLines(table) == {j \in DOMAIN table : DeviceField(table[j]) \in TargetDevs}
OtherLines(table) ==
    {j \in DOMAIN table : /\ DeviceField(table[j]) \notin TargetDevs
                          /\ FieldOf(table[j], "start") # <<>>}

\* the sectors of the disk of the target as the inventory read by the run
\* states its size
DiskSectors ==
    LET inv == Inventory(run.log[Min(LsblkCalls(run.log))].text)
    IN  NatDivSmall(inv[FindDisk(inv, split_partition_name(arg[1]).disk)].size, 512)

\* the requested size in sectors, rounded up, without wrap-around
RequestedSectors == NatDivSmall(NatAdd(ResizeRequest, <<5,1,1>>), 512)

\* the sector after the last one of a partition line
EndSector(line) == NatAdd(FieldNat(line, "start"), FieldNat(line, "size"))

\* C39: the entry resize writes for the target partition ends within the
\* disk and before the start of every partition that follows it, and its
\* sector count is the requested size rounded up to sectors, not a
\* wrapped-around value.
C39_WithinAvailableSpace ==
    Resized =>
        \A i \in WrittenTables :
            LET table == run.log[i].lines
            IN  \A j \in TargetLines(table) :
                    /\ NatLeq(EndSector(table[j]), DiskSectors)
                    /\ \A k \in OtherLines(table) :
                           NatLess(FieldNat(table[j], "start"),
                                   FieldNat(table[k], "start"))
                               => NatLeq(EndSector(table[j]),
                                         FieldNat(table[k], "start"))
                    /\ FieldNat(table[j], "size") = RequestedSectors

\* What the code does write: the start field of the dump unchanged and the
\* requested size in sectors computed modulo 2^64, whatever the size of the
\* disk and wherever the next partition begins.
C39_WrittenAsRequested ==
    Resized =>
        \A i \in WrittenTables :
            LET table == run.log[i].lines
            IN  \A j \in TargetLines(table) :
                    /\ FieldNat(table[j], "size") = size_sectors(ResizeRequest)
                    /\ FieldOf(table[j], "start") = FieldOf(DumpLines[j], "start")

\* 1.5G was written for sdb1 on the disk of 1 GB
C39_PastDiskWitness ==
    /\ Resized /\ arg = <<sdb1, <<"1",".","5","G">>>>
    /\ \E i \in WrittenTables : \E j \in TargetLines(run.log[i].lines) :
           NatLess(DiskSectors, EndSector(run.log[i].lines[j]))

\* the written entry of sda1 covers the start of sda2
C39_OverlapWitness ==
    /\ Resized /\ arg[1] = sda1 /\ run.ok
    /\ \E i \in WrittenTables :
           LET table == run.log[i].lines
           IN  \E j \in TargetLines(table) : \E k \in OtherLines(table) :
                   /\ NatLess(FieldNat(table[j], "start"), FieldNat(table[k], "start"))
                   /\ NatLess(FieldNat(table[k], "start"), EndSector(table[j]))

\* a request of u64::MAX bytes was written as a size of 0 sectors
C39_WrapWitness ==
    /\ Resized /\ ResizeRequest = U64Max
    /\ \E i \in WrittenTables : \E j \in TargetLines(run.log[i].lines) :
           FieldNat(run.log[i].lines[j], "size") = <<0>>

=============================================================================
